---- MODULE Spec2Model ----
(***************************************************************************)
(* A model of the ILSP/ATHENARC/ASEP anonymizer:                           *)
(*   - utils.find_longest_pattern_matches (the span aggregator),           *)
(*   - CustomReplace.operate (the placeholder operator),                   *)
(*   - PiiAnonymizer.anonymize_paragraph (the paragraph pipeline),         *)
(*   - PiiAnonymizer.anonymize (the split of a text into paragraphs),      *)
(*   - utils.match_entities (the alignment of masked and original text).   *)
(* Python strings are sequences of one-character strings; Python tuples    *)
(* (start, end) are the TLA+ tuples <<start, end>>.                        *)
(***************************************************************************)
EXTENDS Integers, Sequences, FiniteSets, TLC

VARIABLES
    finditer,               \* the match objects the patterns yield, in order
    final_longest_matches,  \* what find_longest_pattern_matches returned
    agg_pc,                 \* "scan" while matches arrive, "done" after the call
    operate_log,            \* the CustomReplace.operate calls of one session
    self_operators,         \* PiiAnonymizer.operators
    caller_operators,       \* the operators argument of the call, after the call
    anonymization_results,  \* what the anonymizer engine returned (text, items)
    anonymization_results_dict, \* the record anonymize_paragraph returned
    entity_mapping,         \* entity type -> (original value -> placeholder)
    restored,               \* the outcome of deanonymizing the masked text
    lookup,                 \* the last single Deanonymize call and its outcome
    para_pc,                \* "new", "anonymized", "restored" or "looked_up"
    analyzer_results_sorted, \* analyzer_results of the call, sorted (line 98)
    traceback_printed,      \* traceback.print_exc() ran in the call (line 121)
    paragraph,              \* the text argument of the anonymize_paragraph call
    alignment,              \* one match_entities call: arguments and results
    document,               \* one anonymize call: the text and the records
    enrichment              \* one enrich_entity_info call: arguments, locals, results

aggVars == <<finditer, final_longest_matches, agg_pc>>
codecVars == <<operate_log>>
paraVars == <<self_operators, caller_operators, anonymization_results, anonymization_results_dict,
              entity_mapping, restored, lookup, para_pc,
              analyzer_results_sorted, traceback_printed, paragraph>>
utilVars == <<alignment, document, enrichment>>
vars == <<finditer, final_longest_matches, agg_pc, operate_log,
          self_operators, caller_operators, anonymization_results,
          anonymization_results_dict, entity_mapping, restored, lookup, para_pc,
          analyzer_results_sorted, traceback_printed, paragraph, alignment, document,
          enrichment>>

(***************************************************************************)
(* Bounds of the model.                                                    *)
(***************************************************************************)
AggTextLen == 3     \* offsets of the enumerated matches lie in 0..AggTextLen
MaxMatches == 3     \* number of match objects the patterns yield
MaxCalls == 3       \* CustomReplace.operate calls in one session
TextLen == 3        \* length of a paragraph
MaxSpans == 2       \* analyzer results of one paragraph
AlignTextLen == 4   \* length of an enumerated original text of match_entities
MaxPlaceholders == 2 \* placeholders in an enumerated masked text
DocumentLen == 5    \* length of a text given to anonymize
EnrichTextLen == 3  \* length of an enumerated original text of enrich_entity_info
EnrichPlaceholders == 2 \* placeholders in its masked text
ScanOriginalLen == 2 \* length of an original text paired with any masked text
ScanMaskedLen == 5  \* length of a masked text with stray or unclosed braces

(***************************************************************************)
(* Helpers on sequences.                                                   *)
(***************************************************************************)
Range(s) == {s[k] : k \in 1..Len(s)}

\* Python's tuple order on (start, end) pairs.
SpanLess(a, b) == a[1] < b[1] \/ (a[1] = b[1] /\ a[2] < b[2])

RECURSIVE SortedOfSet(_)
\* sorted(list(set(...))): the elements of a set in ascending tuple order.
SortedOfSet(S) ==
    IF S = {} THEN <<>>
    ELSE LET m == CHOOSE x \in S : \A y \in S : x = y \/ SpanLess(x, y)
         IN <<m>> \o SortedOfSet(S \ {m})

RECURSIVE InsertSorted(_, _)
InsertSorted(x, s) ==
    IF s = <<>> THEN <<x>>
    ELSE IF SpanLess(x, Head(s)) THEN <<x>> \o s
    ELSE <<Head(s)>> \o InsertSorted(x, Tail(s))

RECURSIVE ListSort(_)
\* list.sort() on a list of tuples: duplicates, if any, stay.
ListSort(s) == IF s = <<>> THEN <<>> ELSE InsertSorted(Head(s), ListSort(Tail(s)))

(***************************************************************************)
(* utils.find_longest_pattern_matches                                      *)
(***************************************************************************)
\* match.span(1) of a group that did not take part in the match.
NoSpan == <<-1, -1>>

\* The spans of the spec's longest-match example, (0,10) and (0,14).
ExampleSpans == {<<0, 10>>, <<0, 14>>}

\* Non-empty spans with offsets in 0..n.
SpansUpTo(n) == {sp \in (0..n) \X (0..n) : sp[1] < sp[2]}

\* What pattern.finditer(text) yields for one entry of patterns_config: the
\* whole-match span, the span of group 1 and the entry's use_group1_span flag.
\* A pattern read through group 1 has the shape of PHONE3_REGEX, one leading
\* character and then the group, so span(1) is span(0) without its first
\* character, or NoSpan when the group did not take part.  span(1) is read
\* only when the flag is set, so it is enumerated only then.
MatchObjects ==
    {[use_group1_span |-> FALSE, span0 |-> sp, span1 |-> NoSpan] :
        sp \in SpansUpTo(AggTextLen) \cup ExampleSpans}
    \cup
    {[use_group1_span |-> TRUE, span0 |-> sp, span1 |-> <<sp[1] + 1, sp[2]>>] :
        sp \in {x \in SpansUpTo(AggTextLen) : x[1] + 1 < x[2]}}
    \cup
    {[use_group1_span |-> TRUE, span0 |-> sp, span1 |-> NoSpan] :
        sp \in SpansUpTo(AggTextLen)}

\* span = match.span(1) if use_group1_span else match.span()
SpanOf(match) == IF match.use_group1_span THEN match.span1 ELSE match.span0

\* "if span != (-1, -1): all_raw_matches.append(span)"
IsValidSpan_unguarded(span) == TRUE
IsValidSpan(span) == span # NoSpan

RECURSIVE CollectRaw(_)
\* Step 1: the spans of all matches of all patterns, in order of arrival.
CollectRaw(matches) ==
    IF matches = <<>> THEN <<>>
    ELSE LET span == SpanOf(Head(matches))
         IN (IF IsValidSpan(span) THEN <<span>> ELSE <<>>) \o CollectRaw(Tail(matches))

\* all_raw_matches = sorted(list(set(all_raw_matches)))
DedupSorted_no_set(all_raw_matches) == ListSort(all_raw_matches)
DedupSorted(all_raw_matches) == SortedOfSet(Range(all_raw_matches))

\* contains = span_j[0] <= span_i[0] and span_j[1] >= span_i[1]
contains_start_only(span_j, span_i) == span_j[1] <= span_i[1]
contains(span_j, span_i) == span_j[1] <= span_i[1] /\ span_j[2] >= span_i[2]

\* strictly_longer = (span_j[1] - span_j[0]) > (span_i[1] - span_i[0])
strictly_longer(span_j, span_i) == (span_j[2] - span_j[1]) > (span_i[2] - span_i[1])

\* The inner loop over span_j for one span_i.
is_contained_by_longer_never(span_i, all_raw_matches) == FALSE
is_contained_by_longer(span_i, all_raw_matches) ==
    \E k \in 1..Len(all_raw_matches) :
        LET span_j == all_raw_matches[k]
        IN span_i # span_j /\ contains(span_j, span_i) /\ strictly_longer(span_j, span_i)

\* Step 2: keep the spans no strictly longer span contains.
KeepLongest(all_raw_matches) ==
    SelectSeq(all_raw_matches, LAMBDA span_i : ~is_contained_by_longer(span_i, all_raw_matches))

\* The whole function: collect, dedup and sort, filter, sort.
find_longest_pattern_matches_in_arrival_order(matches) ==
    KeepLongest(CollectRaw(matches))
find_longest_pattern_matches(matches) ==
    ListSort(KeepLongest(DedupSorted(CollectRaw(matches))))

(***************************************************************************)
(* CustomReplace.operate                                                   *)
(***************************************************************************)
\* Entity type names, as Python strings.
PERSON == <<"P", "E", "R", "S", "O", "N">>
LOCATION == <<"L", "O", "C", "A", "T", "I", "O", "N">>
IBAN_CODE == <<"I", "B", "A", "N", "_", "C", "O", "D", "E">>
CREDIT_CARD == <<"C", "R", "E", "D", "I", "T", "_", "C", "A", "R", "D">>
PHONE_NUMBER == <<"P", "H", "O", "N", "E", "_", "N", "U", "M", "B", "E", "R">>
EMAIL_ADDRESS == <<"E", "M", "A", "I", "L", "_", "A", "D", "D", "R", "E", "S", "S">>
\* An entity type a detector may report that has no operator of its own.
ORGANIZATION == <<"O", "R", "G", "A", "N", "I", "Z", "A", "T", "I", "O", "N">>

\* Python's None where a string is expected (no Python string equals it).
None == <<"None">>

PRE_STRING == <<"{", "{">>
POST_STRING == <<"}", "}">>

\* f"{value}": a string as it is, None as the text "None".
FormatStr(value) == IF value = None THEN <<"N", "o", "n", "e">> ELSE value

\* "not new_val": None and the empty string are falsy.
IsFalsy(new_val) == new_val = None \/ new_val = <<>>

\* def operate(self, text, params): the configured new_value, or else
\* "{{" + entity_type + "}}".
CustomReplace_operate_returns_text(text, params) ==
    IF IsFalsy(params.new_value) THEN text ELSE params.new_value
CustomReplace_operate_without_type(text, params) ==
    IF IsFalsy(params.new_value) THEN PRE_STRING \o POST_STRING ELSE params.new_value
CustomReplace_operate(text, params) ==
    LET new_val == params.new_value
    IN IF IsFalsy(new_val)
       THEN PRE_STRING \o FormatStr(params.entity_type) \o POST_STRING
       ELSE new_val

(***************************************************************************)
(* PiiAnonymizer: the operators table and anonymize_paragraph.  The        *)
(* presidio classes it calls (EntityRecognizer.remove_duplicates,          *)
(* AnonymizerEngine.anonymize) and the entity mapping with its Deanonymize *)
(* are modelled from the design in the specification (sections 4.1, 4.2).  *)
(***************************************************************************)
DEFAULT == <<"D", "E", "F", "A", "U", "L", "T">>

ENTITIES_TO_ANONYMIZE ==
    <<PERSON, LOCATION, IBAN_CODE, CREDIT_CARD, PHONE_NUMBER, EMAIL_ADDRESS>>

\* OperatorConfig(name, params): params.get("new_value") is None without params.
OperatorConfig(operator_name, new_value) ==
    [operator_name |-> operator_name, new_value |-> new_value]

\* __init__: every entity to anonymize gets OperatorConfig("custom_replace").
InitialOperators ==
    [entity \in Range(ENTITIES_TO_ANONYMIZE) |-> OperatorConfig("custom_replace", None)]

\* operators["DEFAULT"] = OperatorConfig("keep")
WithDefaultKeep(operators) ==
    [key \in DOMAIN operators \cup {DEFAULT} |->
        IF key = DEFAULT THEN OperatorConfig("keep", None) ELSE operators[key]]

\* "if not operators": None and {} are falsy.
UsesOwnOperators(operators) == ~operators.given \/ DOMAIN operators.table = {}

\* "if not operators: operators = self.operators"
EffectiveOperators(operators, own) ==
    IF UsesOwnOperators(operators) THEN own ELSE operators.table

Min(a, b) == IF a <= b THEN a ELSE b

\* text[start:end] for start, end >= 0: Python clamps both to len(text).
Slice(text, start, end) ==
    LET lo == Min(start, Len(text))
        hi == Min(end, Len(text))
    IN IF lo >= hi THEN <<>> ELSE SubSeq(text, lo + 1, hi)

\* The span of an analyzer result or of an engine item, as a tuple.
SpanOfResult(r) == <<r.start, r.end>>

\* x goes into a list sorted by (start, end) behind every element whose
\* (start, end) is not greater than its own.
InsertByStartEnd(sorted, x) ==
    LET n == Cardinality({k \in 1..Len(sorted) :
                             ~SpanLess(SpanOfResult(x), SpanOfResult(sorted[k]))})
    IN SubSeq(sorted, 1, n) \o <<x>> \o SubSeq(sorted, n + 1, Len(sorted))

RECURSIVE SortedByStartEnd(_)
\* sorted(xs, key=lambda x: (x.start, x.end)): the sort is stable, elements
\* with the same (start, end) stay in the order of the list.
SortedByStartEnd(xs) ==
    IF xs = <<>> THEN <<>>
    ELSE InsertByStartEnd(SortedByStartEnd(SubSeq(xs, 1, Len(xs) - 1)), xs[Len(xs)])

RECURSIVE Pick(_, _)
\* The elements of a list at the given indices, in the order of the list.
Pick(xs, indices) ==
    IF xs = <<>> THEN <<>>
    ELSE Pick(SubSeq(xs, 1, Len(xs) - 1), indices)
             \o (IF Len(xs) \in indices THEN <<xs[Len(xs)]>> ELSE <<>>)

RECURSIVE Orderings(_)
\* Every way to list the elements of a set once each.
Orderings(S) ==
    IF S = {} THEN {<<>>}
    ELSE UNION {{<<x>> \o rest : rest \in Orderings(S \ {x})} : x \in S}

\* EntityRecognizer.remove_duplicates, as the aggregation rule of section 4.1:
\* of identical results the first one stays, and a result is dropped when
\* a distinct, strictly longer result contains it.
remove_duplicates(analyzer_results) ==
    Pick(analyzer_results,
         {k \in 1..Len(analyzer_results) :
             /\ \A j \in 1..(k - 1) : analyzer_results[j] # analyzer_results[k]
             /\ ~\E j \in 1..Len(analyzer_results) :
                    LET q == analyzer_results[j]
                        r == analyzer_results[k]
                    IN /\ q # r
                       /\ contains(SpanOfResult(q), SpanOfResult(r))
                       /\ strictly_longer(SpanOfResult(q), SpanOfResult(r))})

\* The operator of an entity type: its own entry, or else the DEFAULT entry.
OperatorOf(operators, entity_type) ==
    IF entity_type \in DOMAIN operators THEN operators[entity_type] ELSE operators[DEFAULT]

\* The text an operator puts in place of a span: custom_replace calls
\* CustomReplace.operate, keep leaves the original value.
OperatorText(operators, entity_type, value) ==
    LET config == OperatorOf(operators, entity_type)
    IN IF config.operator_name = "custom_replace"
       THEN CustomReplace_operate(value, [new_value |-> config.new_value,
                                          entity_type |-> entity_type])
       ELSE value

RECURSIVE SubstituteDescending(_, _, _, _)
\* Section 4.2, substitution order: the spans, sorted ascending in rs, are
\* replaced from the highest start to the lowest, so the offsets of the spans
\* still to replace stay those of the original text.
SubstituteDescending(current, text, rs, operators) ==
    IF rs = <<>> THEN current
    ELSE LET r == rs[Len(rs)]
             new_text == OperatorText(operators, r.entity_type, Slice(text, r.start, r.end))
         IN SubstituteDescending(
                Slice(current, 0, r.start) \o new_text \o Slice(current, r.end, Len(current)),
                text, SubSeq(rs, 1, Len(rs) - 1), operators)

RECURSIVE EngineItems(_, _, _, _)
\* The substitution records, with their offsets in the masked text: each
\* replacement shifts what follows it by the difference of the lengths.
EngineItems(text, rs, operators, shift) ==
    IF rs = <<>> THEN <<>>
    ELSE LET r == Head(rs)
             new_text == OperatorText(operators, r.entity_type, Slice(text, r.start, r.end))
             item == [start |-> r.start + shift,
                      end |-> r.start + shift + Len(new_text),
                      entity_type |-> r.entity_type,
                      text |-> new_text,
                      operator |-> OperatorOf(operators, r.entity_type).operator_name]
         IN <<item>> \o EngineItems(text, Tail(rs), operators,
                                    shift + Len(new_text) - (r.end - r.start))

\* AnonymizerEngine.anonymize(text, analyzer_results, operators)
AnonymizerEngine_anonymize(text, analyzer_results, operators) ==
    LET rs == SortedByStartEnd(analyzer_results)
    IN [text |-> SubstituteDescending(text, text, rs, operators),
        items |-> EngineItems(text, rs, operators, 0)]

(***************************************************************************)
(* The reversible mode of section 4.2: the placeholder codec with its      *)
(* entity mapping.  An entry of the mapping of an entity type is           *)
(* <<original value, placeholder, index>>, in insertion order.             *)
(***************************************************************************)
Digits == <<"0", "1", "2", "3", "4", "5", "6", "7", "8", "9">>

RECURSIVE IntToStr(_)
\* The decimal digits of a non-negative integer, without leading zeros.
IntToStr(n) == IF n < 10 THEN <<Digits[n + 1]>>
               ELSE IntToStr(n \div 10) \o <<Digits[(n % 10) + 1]>>

\* Section 3, PlaceholderToken of the reversible mode: {{ENTITY_TYPE_INDEX}}
PlaceholderToken_without_index(entity_type, index) ==
    PRE_STRING \o entity_type \o POST_STRING
PlaceholderToken(entity_type, index) ==
    PRE_STRING \o entity_type \o <<"_">> \o IntToStr(index) \o POST_STRING

\* The original values recorded under an entity type.
MappingKeys(mapping_for_type) == {mapping_for_type[k][1] : k \in 1..Len(mapping_for_type)}

\* max(existing indices for entity_type)
MaxIndex(mapping_for_type) ==
    LET indices == {mapping_for_type[k][3] : k \in 1..Len(mapping_for_type)}
    IN CHOOSE i \in indices : \A j \in indices : j <= i

\* Section 4.2, Anonymize(original_value, entity_type, mapping): the
\* placeholder of the value and the mapping after the call.  A new entity
\* type starts at index 0, a value already recorded keeps its placeholder
\* and consumes no index, a new value gets the next index.
PlaceholderCodec_Anonymize(original_value, entity_type, mapping) ==
    IF entity_type \notin DOMAIN mapping
    THEN LET placeholder == PlaceholderToken(entity_type, 0)
         IN [placeholder |-> placeholder,
             mapping |-> [t \in DOMAIN mapping \cup {entity_type} |->
                             IF t = entity_type
                             THEN << <<original_value, placeholder, 0>> >>
                             ELSE mapping[t]]]
    ELSE IF original_value \in MappingKeys(mapping[entity_type])
    THEN LET for_type == mapping[entity_type]
             k == CHOOSE j \in 1..Len(for_type) : for_type[j][1] = original_value
         IN [placeholder |-> for_type[k][2], mapping |-> mapping]
    ELSE LET next_index == MaxIndex(mapping[entity_type]) + 1
             placeholder == PlaceholderToken(entity_type, next_index)
         IN [placeholder |-> placeholder,
             mapping |-> [mapping EXCEPT ![entity_type] =
                             Append(@, <<original_value, placeholder, next_index>>)]]

RECURSIVE SessionMapping(_, _, _)
\* The mapping of one session: Anonymize called on the value of each span
\* of rs in text order, so that an index is assigned on the first sight of
\* a new value (section 3).
SessionMapping(mapping, text, rs) ==
    IF rs = <<>> THEN mapping
    ELSE LET r == Head(rs)
         IN SessionMapping(
                PlaceholderCodec_Anonymize(Slice(text, r.start, r.end),
                                           r.entity_type, mapping).mapping,
                text, Tail(rs))

RECURSIVE SubstitutePlaceholders(_, _, _, _)
\* Section 4.2, substitution order: the spans, sorted ascending in rs, are
\* replaced by their placeholders from the highest start to the lowest.
SubstitutePlaceholders(current, text, rs, mapping) ==
    IF rs = <<>> THEN current
    ELSE LET r == rs[Len(rs)]
             placeholder ==
                 PlaceholderCodec_Anonymize(Slice(text, r.start, r.end),
                                            r.entity_type, mapping).placeholder
         IN SubstitutePlaceholders(
                Slice(current, 0, r.start) \o placeholder
                    \o Slice(current, r.end, Len(current)),
                text, SubSeq(rs, 1, Len(rs) - 1), mapping)

\* Section 6, the record of the reversible mode and the mapping of the
\* session: {text, masked, spans: [{entity_type, entity_value,
\* masked_entity_value, start_position, end_position}]}
ReversibleRecord(text, spans) ==
    LET rs == SortedByStartEnd(spans)
        mapping == SessionMapping([t \in {} |-> <<>>], text, rs)
    IN [record |->
            [text |-> text,
             masked |-> SubstitutePlaceholders(text, text, rs, mapping),
             spans |->
                 [k \in 1..Len(rs) |->
                     LET value == Slice(text, rs[k].start, rs[k].end)
                     IN [entity_type |-> rs[k].entity_type,
                         entity_value |-> value,
                         masked_entity_value |->
                             PlaceholderCodec_Anonymize(value, rs[k].entity_type,
                                                        mapping).placeholder,
                         start_position |-> rs[k].start,
                         end_position |-> rs[k].end]]],
        mapping |-> mapping]

RECURSIVE MaskedItems(_, _)
\* Where the placeholders of the spans of a record stand in the masked
\* text: each replacement shifts what follows it by the difference of the
\* lengths of the placeholder and of the span.
MaskedItems(spans, shift) ==
    IF spans = <<>> THEN <<>>
    ELSE LET span == Head(spans)
             placeholder == span.masked_entity_value
             item == [start |-> span.start_position + shift,
                      end |-> span.start_position + shift + Len(placeholder),
                      entity_type |-> span.entity_type,
                      text |-> placeholder]
         IN <<item>> \o MaskedItems(Tail(spans),
                            shift + Len(placeholder)
                                - (span.end_position - span.start_position))

MappingNotFound == [found |-> FALSE, value |-> <<>>]

\* Section 4.2, Deanonymize(placeholder_value, entity_type, mapping): the
\* first recorded original value whose placeholder is placeholder_value.
Deanonymize_with_fallback(placeholder_value, entity_type, mapping) ==
    [found |-> TRUE, value |-> placeholder_value]
Deanonymize(placeholder_value, entity_type, mapping) ==
    IF entity_type \notin DOMAIN mapping THEN MappingNotFound
    ELSE LET for_type == mapping[entity_type]
             hits == {k \in 1..Len(for_type) : for_type[k][2] = placeholder_value}
         IN IF hits = {} THEN MappingNotFound
            ELSE [found |-> TRUE,
                  value |-> for_type[CHOOSE k \in hits : \A h \in hits : k <= h][1]]

RECURSIVE DeanonymizeText(_, _, _)
\* Every placeholder of the masked text replaced by its original value, from
\* the last item to the first; MappingNotFound if one lookup fails.
DeanonymizeText(masked, items, mapping) ==
    IF items = <<>> THEN [found |-> TRUE, value |-> masked]
    ELSE LET item == items[Len(items)]
             original == Deanonymize(item.text, item.entity_type, mapping)
         IN IF ~original.found THEN MappingNotFound
            ELSE DeanonymizeText(
                     Slice(masked, 0, item.start) \o original.value
                         \o Slice(masked, item.end, Len(masked)),
                     SubSeq(items, 1, Len(items) - 1), mapping)

\* anonymization_results_dict["masked"] = anonymization_results.text
MaskedOf(text, results) == results.text

\* Lines 98-118: both lists sorted by (start, end) and paired by rank; with
\* different lengths the assertion fails and the span list stays empty.
\* Line 107: assert len(analyzer_results) == len(anonymization_results.items)
SameLength_unchecked(sorted_results, sorted_items) == TRUE
SameLength(sorted_results, sorted_items) == Len(sorted_results) = Len(sorted_items)

ParagraphRecord_paired_backwards(text, analyzer_results, results) ==
    LET sorted_results == SortedByStartEnd(analyzer_results)
        sorted_items == SortedByStartEnd(results.items)
    IN [full_text |-> text,
        masked |-> MaskedOf(text, results),
        spans |->
            IF SameLength(sorted_results, sorted_items)
            THEN [k \in 1..Min(Len(sorted_results), Len(sorted_items)) |->
                     [entity_type |-> sorted_results[k].entity_type,
                      entity_value |-> Slice(text, sorted_results[k].start,
                                             sorted_results[k].end),
                      operator |-> sorted_items[Len(sorted_items) + 1 - k].operator,
                      start_position |-> sorted_results[k].start,
                      end_position |-> sorted_results[k].end]]
            ELSE <<>>]
\* Lines 102-118: the record of the paragraph and its spans, zipped by rank.
ParagraphRecord(text, analyzer_results, results) ==
    LET sorted_results == SortedByStartEnd(analyzer_results)
        sorted_items == SortedByStartEnd(results.items)
    IN [full_text |-> text,
        masked |-> MaskedOf(text, results),
        spans |->
            IF SameLength(sorted_results, sorted_items)
            THEN [k \in 1..Min(Len(sorted_results), Len(sorted_items)) |->
                     [entity_type |-> sorted_results[k].entity_type,
                      entity_value |-> Slice(text, sorted_results[k].start,
                                             sorted_results[k].end),
                      operator |-> sorted_items[k].operator,
                      start_position |-> sorted_results[k].start,
                      end_position |-> sorted_results[k].end]]
            ELSE <<>>]

(***************************************************************************)
(* The inputs of anonymize_paragraph.                                      *)
(***************************************************************************)
Alphabet == {"a", "b"}

Texts == UNION {[1..n -> Alphabet] : n \in 1..TextLen}

ParagraphEntityTypes == {PERSON, LOCATION, ORGANIZATION}

\* What the analyzer may report on a text: typed non-empty spans within it.
RecognizerResults(text) ==
    {[entity_type |-> t, start |-> sp[1], end |-> sp[2]] :
        t \in ParagraphEntityTypes, sp \in SpansUpTo(Len(text))}

RECURSIVE SetsUpTo(_, _)
SetsUpTo(S, n) ==
    IF n = 0 THEN {{}}
    ELSE LET smaller == SetsUpTo(S, n - 1)
         IN smaller \cup {A \cup {x} : A \in smaller, x \in S}

Disjoint(r, q) == r.end <= q.start \/ q.end <= r.start

\* Resolved results: the lists of at most MaxSpans results that are mutually
\* non-overlapping, in any order.
AnalyzerResults(text) ==
    UNION {Orderings(R) :
              R \in {Q \in SetsUpTo(RecognizerResults(text), MaxSpans) :
                        \A r \in Q, q \in Q : r # q => Disjoint(r, q)}}

\* The operators argument: absent (None), an empty table, or a table that
\* replaces every PERSON by the text X.
CallerOperators ==
    {[given |-> FALSE, table |-> [key \in {} |-> OperatorConfig("keep", None)]],
     [given |-> TRUE, table |-> [key \in {} |-> OperatorConfig("keep", None)]],
     [given |-> TRUE, table |-> [key \in {PERSON} |-> OperatorConfig("custom_replace", <<"X">>)]]}

\* The placeholders a caller may ask Deanonymize about: indexed ones, one
\* that lost its index, and an original value.
LookupPlaceholders ==
    {PlaceholderToken(PERSON, 0), PlaceholderToken(PERSON, 1),
     PlaceholderToken(LOCATION, 0), PRE_STRING \o PERSON \o POST_STRING, <<"a">>}

(***************************************************************************)
(* utils.match_entities: the alignment of a masked text with its original. *)
(***************************************************************************)
\* min(20, ...): the length of a context window
ContextLen == 20

\* A text is a sequence of characters, each written as a string.  A string
\* of a module cannot hold a character from U+2000 on, so such a character
\* is written by its code point: "U+2003" is the one character U+2003.
\* The characters str.isspace() accepts, all 29: \t, \n, U+000B, \f, \r,
\* U+001C to U+001F, space, U+0085, U+00A0 and U+1680, which stand in their
\* strings as themselves, and the Unicode spaces from U+2000 on.
WrittenWhitespace ==
    {"\t", "\n", "", "\f", "\r", "", "", "", "", " ", "", " ", " "}
UnicodeSpaces ==
    {"U+2000", "U+2001", "U+2002", "U+2003", "U+2004", "U+2005", "U+2006", "U+2007",
     "U+2008", "U+2009", "U+200A", "U+2028", "U+2029", "U+202F", "U+205F", "U+3000"}
Whitespace == WrittenWhitespace \cup UnicodeSpaces
IsSpace(c) == c \in Whitespace

\* str.find(sub, start): the lowest index at or after start where sub occurs
\* in text, or -1.
Find(text, sub, start) ==
    LET hits == {i \in start..(Len(text) - Len(sub)) :
                    Slice(text, i, i + Len(sub)) = sub}
    IN IF hits = {} THEN -1
       ELSE CHOOSE i \in hits : \A j \in hits : i <= j

RECURSIVE LStrip(_)
LStrip(s) == IF s # <<>> /\ IsSpace(Head(s)) THEN LStrip(Tail(s)) ELSE s

RECURSIVE RStrip(_)
RStrip(s) ==
    IF s # <<>> /\ IsSpace(s[Len(s)]) THEN RStrip(SubSeq(s, 1, Len(s) - 1)) ELSE s

\* str.strip()
Strip(s) == RStrip(LStrip(s))

\* The length of the first whitespace-free run of s.
RECURSIVE WordLen(_)
WordLen(s) == IF s = <<>> \/ IsSpace(Head(s)) THEN 0 ELSE 1 + WordLen(Tail(s))

\* str.split(): the whitespace-delimited tokens of s, in order.
RECURSIVE Split(_)
Split(s) ==
    LET t == LStrip(s)
    IN IF t = <<>> THEN <<>>
       ELSE <<SubSeq(t, 1, WordLen(t))>> \o Split(SubSeq(t, WordLen(t) + 1, Len(t)))

\* Lines 142-149, one pass:
\* ''.join([c for i, c in enumerate(context)
\*          if not (c == brace and i+1 < len(context) and context[i+1] == brace)])
RECURSIVE DropBeforeSame(_, _, _)
DropBeforeSame(context, brace, i) ==
    IF i > Len(context) THEN <<>>
    ELSE (IF context[i] = brace /\ i + 1 <= Len(context) /\ context[i + 1] = brace
          THEN <<>> ELSE <<context[i]>>)
         \o DropBeforeSame(context, brace, i + 1)

\* Lines 141-149: the pass for "{" and then the pass for "}".
CleanContext(context) ==
    DropBeforeSame(DropBeforeSame(context, "{", 1), "}", 1)

\* Lines 134-135 and 142-143
context_before(masked_text, entity) ==
    LET context_before_len == Min(ContextLen, entity.start)
    IN Slice(masked_text, entity.start - context_before_len, entity.start)

\* Lines 137-138
context_after(masked_text, entity) ==
    LET context_after_len == Min(ContextLen, Len(masked_text) - entity.end)
    IN Slice(masked_text, entity.end, entity.end + context_after_len)

NotFound == [found |-> FALSE, orig_start |-> -1, orig_end |-> -1, orig_text |-> <<>>]

\* Lines 152-176 with the after-context searched from the start of the text.
DirectMatch_unanchored(original_text, before, after) ==
    IF before # <<>> /\ after # <<>>
    THEN LET before_pos == Find(original_text, before, 0)
             before_end == before_pos + Len(before)
             after_pos == Find(original_text, after, 0)
         IN IF before_pos # -1 /\ after_pos > before_end
            THEN [found |-> TRUE, orig_start |-> before_end, orig_end |-> after_pos,
                  orig_text |-> Slice(original_text, before_end, after_pos)]
            ELSE NotFound
    ELSE NotFound

\* Lines 152-176: both contexts searched as they are. str.index raises
\* ValueError where str.find returns -1, and the handler passes.
DirectMatch(original_text, before, after) ==
    IF before # <<>> /\ after # <<>>
    THEN LET before_pos == Find(original_text, before, 0)
             before_end == before_pos + Len(before)
             after_pos == Find(original_text, after, before_end)
         IN IF before_pos # -1 /\ after_pos > before_end
            THEN [found |-> TRUE, orig_start |-> before_end, orig_end |-> after_pos,
                  orig_text |-> Slice(original_text, before_end, after_pos)]
            ELSE NotFound
    ELSE NotFound

\* Lines 179-210: the last word before and the first word after.
WordMatch(original_text, before, after) ==
    LET words_before == Split(Strip(before))
        words_after == Split(Strip(after))
    IN IF words_before # <<>> /\ words_after # <<>>
       THEN LET last_word_before == words_before[Len(words_before)]
                first_word_after == words_after[1]
                before_pos == Find(original_text, last_word_before, 0)
                before_end == before_pos + Len(last_word_before)
                after_pos == Find(original_text, first_word_after, before_end)
            IN IF before_pos >= 0 /\ after_pos > before_end
               THEN [found |-> TRUE, orig_start |-> before_end, orig_end |-> after_pos,
                     orig_text |-> Strip(Slice(original_text, before_end, after_pos))]
               ELSE NotFound
       ELSE NotFound

\* dict.update: the keys of other are added to d or overwritten in it.
DictUpdate(d, other) ==
    [key \in DOMAIN d \cup DOMAIN other |->
        IF key \in DOMAIN other THEN other[key] ELSE d[key]]

\* Lines 165-171 and 201-207: entity.copy() with the three keys added;
\* every key the entity came with is kept.
Enriched(entity, match) ==
    DictUpdate(entity, [start_position |-> match.orig_start,
                        end_position |-> match.orig_end,
                        orig_text |-> match.orig_text])

\* Line 213: results.append(entity)
Unmatched_marked(entity) ==
    Enriched(entity, NotFound)
Unmatched(entity) == entity

\* Lines 128-213: the body of the loop, for one entity.
match_entity(original_text, masked_text, entity) ==
    LET before == CleanContext(context_before(masked_text, entity))
        after == CleanContext(context_after(masked_text, entity))
        direct == DirectMatch(original_text, before, after)
        words == WordMatch(original_text, before, after)
    IN IF direct.found THEN Enriched(entity, direct)
       ELSE IF words.found THEN Enriched(entity, words)
       ELSE Unmatched(entity)

\* match_entities(original_text, masked_text, entities)
match_entities(original_text, masked_text, entities) ==
    [k \in 1..Len(entities) |-> match_entity(original_text, masked_text, entities[k])]

(***************************************************************************)
(* PiiAnonymizer.anonymize: a text, paragraph by paragraph.                *)
(***************************************************************************)
NL == "\n"

\* text.split(NL): the pieces between the line breaks, empty ones included.
RECURSIVE SplitOn(_, _)
SplitOn(text, sep) ==
    LET at == Find(text, <<sep>>, 0)
    IN IF at = -1 THEN <<text>>
       ELSE <<Slice(text, 0, at)>> \o SplitOn(Slice(text, at + 1, Len(text)), sep)

\* Line 162: if paragraph.strip()
IsParagraph_not_empty(line) == line # <<>>
IsParagraph(line) == Strip(line) # <<>>

\* What self.analyze may report on a paragraph: nothing, or every "a" of the
\* paragraph as a PERSON.
Analyzers == {"nothing", "persons"}

Analyze(analyzer, text) ==
    IF analyzer = "persons"
    THEN Pick([i \in 1..Len(text) |-> [entity_type |-> PERSON, start |-> i - 1, end |-> i]],
              {j \in 1..Len(text) : text[j] = "a"})
    ELSE <<>>

\* anonymize_paragraph(paragraph) as anonymize calls it: no analyzer_results
\* and no operators given.
anonymize_paragraph(text, analyzer, own_operators) ==
    LET operators == WithDefaultKeep(own_operators)
        deduplicated == remove_duplicates(Analyze(analyzer, text))
    IN ParagraphRecord(text, deduplicated,
                       AnonymizerEngine_anonymize(text, deduplicated, operators))

\* Lines 159-164: the records of the paragraphs that are not blank.
anonymize(text, analyzer, own_operators) ==
    LET paragraphs == SelectSeq(SplitOn(text, NL), IsParagraph)
    IN [k \in 1..Len(paragraphs) |->
           anonymize_paragraph(paragraphs[k], analyzer, own_operators)]

(***************************************************************************)
(* The state machines.                                                     *)
(***************************************************************************)
NoResults == [text |-> <<>>, items |-> <<>>]
NoRecord == [full_text |-> <<>>, masked |-> <<>>, spans |-> <<>>]
NoLookup == [placeholder_value |-> <<>>, entity_type |-> <<>>,
             mapping |-> [t \in {} |-> <<>>], outcome |-> MappingNotFound]

NoOperators == [given |-> FALSE, table |-> [key \in {} |-> OperatorConfig("keep", None)]]

ParaIdle ==
    /\ self_operators = InitialOperators
    /\ caller_operators = NoOperators
    /\ anonymization_results = NoResults
    /\ anonymization_results_dict = NoRecord
    /\ entity_mapping = [t \in {} |-> <<>>]
    /\ restored = MappingNotFound
    /\ lookup = NoLookup
    /\ para_pc = "new"
    /\ analyzer_results_sorted = <<>>
    /\ traceback_printed = FALSE
    /\ paragraph = <<>>

NoAlignment == [original_text |-> <<>>, masked_text |-> <<>>, entities |-> <<>>,
                results |-> <<>>, spans |-> <<>>, called |-> FALSE]
NoDocument == [text |-> <<>>, results |-> <<>>, called |-> FALSE]

\* entity_end_idx before its first assignment.
Unbound == <<"unbound">>

NoEnrichment ==
    [original_text |-> <<>>, masked_text |-> <<>>, entities |-> <<>>, spans |-> <<>>,
     pc |-> "idle", original_idx |-> 0, masked_idx |-> 0,
     mask_to_orig_start |-> <<>>, mask_to_orig_end |-> <<>>,
     end_mask_idx |-> 0, next_char_idx |-> 0, search_start |-> 0,
     entity_end_idx |-> Unbound, assigned |-> FALSE, enriched_entities |-> <<>>]

UtilIdle ==
    /\ alignment = NoAlignment
    /\ document = NoDocument
    /\ enrichment = NoEnrichment

(***************************************************************************)
(* The aggregator as a state machine: the patterns yield matches, then the *)
(* function runs to completion on them.                                    *)
(***************************************************************************)
AggIdle ==
    /\ finditer = <<>>
    /\ final_longest_matches = <<>>
    /\ agg_pc = "scan"

InitAgg ==
    /\ AggIdle
    /\ operate_log = <<>>
    /\ ParaIdle
    /\ UtilIdle

\* pattern.finditer(text) yields one more match.
Finditer ==
    /\ agg_pc = "scan"
    /\ Len(finditer) < MaxMatches
    /\ \E m \in MatchObjects : finditer' = Append(finditer, m)
    /\ UNCHANGED <<final_longest_matches, agg_pc>>
    /\ UNCHANGED <<codecVars, paraVars, utilVars>>

\* find_longest_pattern_matches(text, patterns_config) returns.
FindLongestPatternMatches ==
    /\ agg_pc = "scan"
    /\ final_longest_matches' = find_longest_pattern_matches(finditer)
    /\ agg_pc' = "done"
    /\ UNCHANGED finditer
    /\ UNCHANGED <<codecVars, paraVars, utilVars>>

NextAgg == Finditer \/ FindLongestPatternMatches

SpecAgg == InitAgg /\ [][NextAgg]_vars

\* The original values, entity types and new_value settings of the calls.
PiiValues == {<<"a">>, <<"b">>, <<"X">>}
CodecEntityTypes == {PERSON, LOCATION}
NewValues == {None, <<>>, <<"X">>}

InitCodec ==
    /\ AggIdle
    /\ operate_log = <<>>
    /\ ParaIdle
    /\ UtilIdle

\* One more substitution of the session: the engine calls operate on the
\* text of a span with the parameters of the span's operator.
Operate ==
    /\ Len(operate_log) < MaxCalls
    /\ \E text \in PiiValues, entity_type \in CodecEntityTypes, new_value \in NewValues :
          LET params == [new_value |-> new_value, entity_type |-> entity_type]
          IN operate_log' = Append(operate_log,
                 [text |-> text, entity_type |-> entity_type, new_value |-> new_value,
                  result |-> CustomReplace_operate(text, params)])
    /\ UNCHANGED <<aggVars, paraVars, utilVars>>

NextCodec == Operate

SpecCodec == InitCodec /\ [][NextCodec]_vars


InitParagraph ==
    /\ AggIdle
    /\ operate_log = <<>>
    /\ ParaIdle
    /\ UtilIdle

\* anonymize_paragraph(text, analyzer_results=..., operators=...); it
\* produces no entity mapping.
AnonymizeParagraph ==
    /\ para_pc = "new"
    /\ \E text \in Texts :
        \E analyzer_results \in AnalyzerResults(text), given \in CallerOperators :
          LET operators == WithDefaultKeep(EffectiveOperators(given, self_operators))
              deduplicated == remove_duplicates(analyzer_results)
              results == AnonymizerEngine_anonymize(text, deduplicated, operators)
          IN /\ self_operators' =
                    IF UsesOwnOperators(given) THEN operators ELSE self_operators
             /\ caller_operators' =
                    IF UsesOwnOperators(given) THEN given
                    ELSE [given EXCEPT !.table = operators]
             /\ anonymization_results' =
                    [results EXCEPT !.items = SortedByStartEnd(results.items)]
             /\ anonymization_results_dict' = ParagraphRecord(text, deduplicated, results)
             /\ analyzer_results_sorted' = SortedByStartEnd(deduplicated)
             /\ paragraph' = text
             /\ traceback_printed' =
                    ~SameLength(SortedByStartEnd(deduplicated),
                                SortedByStartEnd(results.items))
    /\ para_pc' = "anonymized"
    /\ UNCHANGED <<entity_mapping, restored, lookup>>
    /\ UNCHANGED <<aggVars, codecVars, utilVars>>

NextParagraph == AnonymizeParagraph

SpecParagraph == InitParagraph /\ [][NextParagraph]_vars

(***************************************************************************)
(* The reversible mode as a state machine: one session anonymizes a text,  *)
(* keeps the record and the mapping, and the caller then deanonymizes the  *)
(* masked text or looks one placeholder up.                                *)
(***************************************************************************)
InitReversible ==
    /\ AggIdle
    /\ operate_log = <<>>
    /\ ParaIdle
    /\ UtilIdle

\* Section 4.4: the spans are resolved, then the codec substitutes and
\* produces the masked text and the mapping of the session.
AnonymizeReversible ==
    /\ para_pc = "new"
    /\ \E text \in Texts :
        \E analyzer_results \in AnalyzerResults(text) :
          LET resolved == remove_duplicates(analyzer_results)
              session == ReversibleRecord(text, resolved)
          IN /\ anonymization_results_dict' = session.record
             /\ entity_mapping' = session.mapping
             /\ analyzer_results_sorted' = SortedByStartEnd(resolved)
             /\ paragraph' = text
    /\ para_pc' = "anonymized"
    /\ UNCHANGED <<self_operators, caller_operators, anonymization_results,
                   restored, lookup, traceback_printed>>
    /\ UNCHANGED <<aggVars, codecVars, utilVars>>

\* Section 6, Deanonymize(masked_text, spans, mapping) with the record and
\* the mapping of the session.
DeanonymizeMasked ==
    /\ para_pc = "anonymized"
    /\ restored' = DeanonymizeText(anonymization_results_dict.masked,
                                   MaskedItems(anonymization_results_dict.spans, 0),
                                   entity_mapping)
    /\ para_pc' = "restored"
    /\ UNCHANGED <<self_operators, caller_operators, anonymization_results,
                   anonymization_results_dict, entity_mapping, lookup,
                   analyzer_results_sorted, traceback_printed, paragraph>>
    /\ UNCHANGED <<aggVars, codecVars, utilVars>>

\* One Deanonymize(placeholder_value, entity_type, mapping) call.
DeanonymizeLookup ==
    /\ para_pc = "anonymized"
    /\ \E placeholder_value \in LookupPlaceholders, entity_type \in ParagraphEntityTypes :
          lookup' = [placeholder_value |-> placeholder_value,
                     entity_type |-> entity_type,
                     mapping |-> entity_mapping,
                     outcome |-> Deanonymize(placeholder_value, entity_type, entity_mapping)]
    /\ para_pc' = "looked_up"
    /\ UNCHANGED <<self_operators, caller_operators, anonymization_results,
                   anonymization_results_dict, entity_mapping, restored,
                   analyzer_results_sorted, traceback_printed, paragraph>>
    /\ UNCHANGED <<aggVars, codecVars, utilVars>>

NextReversible == AnonymizeReversible \/ DeanonymizeMasked \/ DeanonymizeLookup

SpecReversible == InitReversible /\ [][NextReversible]_vars

(***************************************************************************)
(* match_entities as a state machine: one call on a masked text, its       *)
(* original and the placeholders of the masked text in text order.         *)
(***************************************************************************)
AlignAlphabet == {"a", "b", " "}

AlignTexts == UNION {[1..n -> AlignAlphabet] : n \in 1..AlignTextLen}

AlignEntityTypes == {PERSON, LOCATION}

\* The sets of at most n typed, non-empty, non-overlapping spans that lie
\* between the offsets from and to.
RECURSIVE SpanChains(_, _, _)
SpanChains(from, to, n) ==
    IF n = 0 THEN {{}}
    ELSE {{}} \cup
         UNION {{{[entity_type |-> t, start |-> sp[1], end |-> sp[2]]} \cup rest :
                    t \in AlignEntityTypes, rest \in SpanChains(sp[2], to, n - 1)} :
                sp \in {q \in SpansUpTo(to) : q[1] >= from}}

\* The PII spans of an original text: typed, non-empty, non-overlapping.
PiiSpans(text) == SpanChains(0, Len(text), MaxPlaceholders)

\* The example of the specification, texts in which a word repeats, and a
\* text with carriage returns between its words.
AlignExamples ==
    {[original_text |-> <<"Γ", "ι", "ά", "ν", "ν", "η", "ς", " ", "π", "ή", "γ", "ε", " ",
                          "σ", "τ", "η", "ν", " ", "Α", "θ", "ή", "ν", "α", ".">>,
      spans |-> {[entity_type |-> PERSON, start |-> 0, end |-> 7],
                 [entity_type |-> LOCATION, start |-> 18, end |-> 23]}],
     [original_text |-> <<"a", " ", "X", " ", "a", " ", "Y", " ", "b">>,
      spans |-> {[entity_type |-> PERSON, start |-> 2, end |-> 3],
                 [entity_type |-> LOCATION, start |-> 6, end |-> 7]}],
     [original_text |-> <<"a", " ", "X", " ", "b", " ", "a", " ", "Y", " ", "b">>,
      spans |-> {[entity_type |-> PERSON, start |-> 8, end |-> 9]}],
     [original_text |-> <<"x", "\r", "a", " ", "Z", " ", "b", "\r", "y">>,
      spans |-> {[entity_type |-> PERSON, start |-> 4, end |-> 5]}]}

\* The arguments of a call: the masked text is the original with every span
\* replaced by its {{TYPE}} placeholder, the entities are the placeholders
\* with their offsets in the masked text.
MaskedInput(original_text, spans) ==
    LET in_text_order == SortedByStartEnd(CHOOSE xs \in Orderings(spans) : TRUE)
        masked == AnonymizerEngine_anonymize(original_text, in_text_order,
                                             WithDefaultKeep(InitialOperators))
    IN [original_text |-> original_text,
        spans |-> in_text_order,
        masked_text |-> masked.text,
        entities |-> [k \in 1..Len(masked.items) |->
                         [entity_value |-> masked.items[k].text,
                          start |-> masked.items[k].start,
                          end |-> masked.items[k].end]]]

\* The original texts of the calls, and the span sets of each: every span
\* set of an enumerated text, the given one of an example.
OriginalTexts == AlignTexts \cup {e.original_text : e \in AlignExamples}

SpanSetsOf(text) ==
    IF text \in AlignTexts THEN PiiSpans(text)
    ELSE {e.spans : e \in {x \in AlignExamples : x.original_text = text}}

InitAlign ==
    /\ AggIdle
    /\ operate_log = <<>>
    /\ ParaIdle
    /\ UtilIdle

\* match_entities(original_text, masked_text, entities); the spans the
\* placeholders stand for are kept beside the call, in the same order.
MatchEntities ==
    /\ ~alignment.called
    /\ \E text \in OriginalTexts :
        \E spans \in SpanSetsOf(text) :
          LET input == MaskedInput(text, spans)
          IN
          alignment' = [original_text |-> input.original_text,
                        masked_text |-> input.masked_text,
                        entities |-> input.entities,
                        results |-> match_entities(input.original_text,
                                                   input.masked_text, input.entities),
                        spans |-> input.spans,
                        called |-> TRUE]
    /\ UNCHANGED <<aggVars, codecVars, paraVars, document, enrichment>>

NextAlign == MatchEntities

SpecAlign == InitAlign /\ [][NextAlign]_vars


(***************************************************************************)
(* Properties of the span aggregator.                                      *)
(***************************************************************************)
\* The spans the patterns contributed: the selected span of every match,
\* without the spans of groups that did not take part.
InputSpans == {SpanOf(finditer[k]) : k \in 1..Len(finditer)} \ {NoSpan}

OutputSpans == Range(final_longest_matches)

\* The spans of S that no distinct, containing, strictly longer span of S beats.
Longest(S) ==
    {i \in S : ~\E j \in S : /\ j # i
                             /\ j[1] <= i[1] /\ j[2] >= i[2]
                             /\ (j[2] - j[1]) > (i[2] - i[1])}

PartiallyOverlap(a, b) ==
    /\ a[1] < b[2] /\ b[1] < a[2]
    /\ ~(a[1] <= b[1] /\ a[2] >= b[2])
    /\ ~(b[1] <= a[1] /\ b[2] >= a[2])

\* C1: find_longest_pattern_matches returns exactly the distinct input spans
\* that no distinct containing strictly longer input span beats, each once;
\* two partially overlapping spans and two different equal-length spans are
\* both kept; for the input {(0,10), (0,14)} the result is only (0,14).
C1_LongestSpansKept ==
    agg_pc = "done" =>
        /\ OutputSpans = Longest(InputSpans)
        /\ Len(final_longest_matches) = Cardinality(Longest(InputSpans))
        /\ \A a \in InputSpans, b \in InputSpans :
              (InputSpans = {a, b} /\ a # b
                 /\ (PartiallyOverlap(a, b) \/ a[2] - a[1] = b[2] - b[1]))
              => OutputSpans = {a, b}
        /\ (InputSpans = ExampleSpans => final_longest_matches = << <<0, 14>> >>)

C1_Witness ==
    /\ agg_pc = "done"
    /\ InputSpans = ExampleSpans
    /\ final_longest_matches = << <<0, 14>> >>

\* C2: the aggregator's output holds no pair of spans where one contains the
\* other and is strictly longer.
C2_NoContainedShorterSpan ==
    agg_pc = "done" =>
        \A a \in OutputSpans, b \in OutputSpans :
            ~(/\ a # b
              /\ b[1] <= a[1] /\ b[2] >= a[2]
              /\ (b[2] - b[1]) > (a[2] - a[1]))

\* A call in which a span was dropped and two spans survived.
C2_Witness ==
    /\ agg_pc = "done"
    /\ InputSpans \ OutputSpans # {}
    /\ Cardinality(OutputSpans) >= 2

\* C3 as stated: every two distinct output spans are disjoint.
C3_NonOverlapping ==
    agg_pc = "done" =>
        \A a \in OutputSpans, b \in OutputSpans :
            a # b => (a[2] <= b[1] \/ b[2] <= a[1])

\* Every two input spans are disjoint or one contains the other.
NoPartialOverlapInInput ==
    \A a \in InputSpans, b \in InputSpans : ~PartiallyOverlap(a, b)

\* C3 (amended): the output is mutually non-overlapping whenever no two raw
\* input spans partially overlap; the aggregator removes contained spans only,
\* so two partially overlapping input spans are both kept.
C3_NonOverlappingUnlessPartialOverlap ==
    agg_pc = "done" =>
        /\ NoPartialOverlapInInput =>
              \A a \in OutputSpans, b \in OutputSpans :
                  a # b => (a[2] <= b[1] \/ b[2] <= a[1])
        /\ \A a \in InputSpans, b \in InputSpans :
              (InputSpans = {a, b} /\ PartiallyOverlap(a, b)) => OutputSpans = {a, b}

\* Nested input spans were resolved to two disjoint output spans.
C3_Witness ==
    /\ agg_pc = "done"
    /\ NoPartialOverlapInInput
    /\ InputSpans \ OutputSpans # {}
    /\ Cardinality(OutputSpans) >= 2

\* C4: the output is strictly ascending by (start, end): a span yielded by
\* several patterns appears once, and each consecutive pair is ordered by
\* start and then by end.
C4_StrictlyAscending ==
    agg_pc = "done" =>
        \A k \in 1..(Len(final_longest_matches) - 1) :
            LET a == final_longest_matches[k]
                b == final_longest_matches[k + 1]
            IN a[1] < b[1] \/ (a[1] = b[1] /\ a[2] < b[2])

\* The same span arrived twice, out of order with another span.
C4_Witness ==
    /\ agg_pc = "done"
    /\ Len(final_longest_matches) >= 2
    /\ \E k \in 1..Len(finditer), l \in 1..Len(finditer) :
          k # l /\ SpanOf(finditer[k]) = SpanOf(finditer[l])
    /\ \E k \in 1..(Len(finditer) - 1) :
          SpanLess(SpanOf(finditer[k + 1]), SpanOf(finditer[k]))

\* A span with start > end or an offset outside the text.  The only such
\* span a match object yields is the (-1, -1) of an unmatched group.
Malformed(span) == span[1] > span[2] \/ span[1] < 0

\* The matches whose selected span is well formed.
WellFormedMatches == SelectSeq(finditer, LAMBDA m : ~Malformed(SpanOf(m)))

\* C5: a malformed raw span is excluded from aggregation: it is not in the
\* output, no well-formed span is discarded because of it, and the remaining
\* spans are processed as if it had not been reported.
C5_MalformedSpanExcluded ==
    agg_pc = "done" =>
        /\ \A sp \in OutputSpans : ~Malformed(sp)
        /\ OutputSpans = Longest({SpanOf(m) : m \in Range(WellFormedMatches)})

\* A call that met an unmatched group next to well-formed spans.
C5_Witness ==
    /\ agg_pc = "done"
    /\ \E k \in 1..Len(finditer) : Malformed(SpanOf(finditer[k]))
    /\ Cardinality(OutputSpans) >= 2

(***************************************************************************)
(* The aggregator as a function of the set of its input spans.             *)
(***************************************************************************)
\* The matches of the call in every order, with any one of them yielded
\* once more, and with all of them yielded twice.
Relistings ==
    {[k \in 1..Len(f) |-> finditer[f[k]]] : f \in Orderings(1..Len(finditer))}
    \cup {Append(finditer, finditer[k]) : k \in 1..Len(finditer)}
    \cup {finditer \o finditer}

\* A span as the match of a pattern without a selected group.
WholeMatch(span) == [use_group1_span |-> FALSE, span0 |-> span, span1 |-> NoSpan]

OutputAsMatches ==
    [k \in 1..Len(final_longest_matches) |-> WholeMatch(final_longest_matches[k])]

\* C24: the result of the span aggregator depends only on the set of input
\* spans: it is the same for every ordering and every duplication of the raw
\* matches, and the containment filter applied to the output, like the whole
\* function applied to it, returns the output unchanged.
C24_SetFunctionIdempotent ==
    agg_pc = "done" =>
        /\ \A matches \in Relistings :
               find_longest_pattern_matches(matches) = final_longest_matches
        /\ final_longest_matches = ListSort(KeepLongest(SortedOfSet(InputSpans)))
        /\ KeepLongest(final_longest_matches) = final_longest_matches
        /\ find_longest_pattern_matches(OutputAsMatches) = final_longest_matches

\* A call whose matches arrived out of order, one span twice, and in which
\* the filter dropped a contained span and kept two.
C24_Witness ==
    /\ agg_pc = "done"
    /\ Len(finditer) > Cardinality(InputSpans)
    /\ \E k \in 1..(Len(finditer) - 1) :
          /\ IsValidSpan(SpanOf(finditer[k]))
          /\ IsValidSpan(SpanOf(finditer[k + 1]))
          /\ SpanLess(SpanOf(finditer[k + 1]), SpanOf(finditer[k]))
    /\ Len(final_longest_matches) < Cardinality(InputSpans)
    /\ final_longest_matches # <<>>

(***************************************************************************)
(* Properties of the placeholder operator.                                 *)
(***************************************************************************)
\* The calls made with the default operator configuration (no new_value),
\* as PiiAnonymizer.__init__ configures every entity type.
DefaultCalls == {k \in 1..Len(operate_log) : operate_log[k].new_value = None}

\* The index a memoizing codec gives the value of call k: the number of
\* different values of the same entity type seen before its first occurrence.
MemoIndex(k) ==
    LET first == CHOOSE f \in DefaultCalls :
                     /\ operate_log[f].entity_type = operate_log[k].entity_type
                     /\ operate_log[f].text = operate_log[k].text
                     /\ \A g \in DefaultCalls :
                           (operate_log[g].entity_type = operate_log[k].entity_type
                              /\ operate_log[g].text = operate_log[k].text) => f <= g
    IN Cardinality({operate_log[g].text : g \in {h \in DefaultCalls :
                       h < first /\ operate_log[h].entity_type = operate_log[k].entity_type}})

\* C7 as stated: the same value under the same entity type always receives
\* the same placeholder and a repeated value consumes no new index: the
\* first PERSON value gets {{PERSON_0}}, its repetition {{PERSON_0}}, the
\* next different PERSON value {{PERSON_1}}.
C7_IndexedMemoization ==
    \A k \in DefaultCalls :
        operate_log[k].result =
            PRE_STRING \o operate_log[k].entity_type \o <<"_">>
                \o IntToStr(MemoIndex(k)) \o POST_STRING

\* C7 (amended): within one session the same original value under the same
\* entity type and operator configuration always receives the same
\* placeholder, and no index is consumed at all: with no new_value configured
\* every value of type T, repeated or new, receives {{T}} (the first PERSON
\* value gets {{PERSON}}, its repetition {{PERSON}}, the next different
\* PERSON value {{PERSON}} too).
C7_SamePlaceholderNoIndex ==
    /\ \A k \in 1..Len(operate_log), l \in 1..Len(operate_log) :
          (/\ operate_log[k].text = operate_log[l].text
           /\ operate_log[k].entity_type = operate_log[l].entity_type
           /\ operate_log[k].new_value = operate_log[l].new_value)
          => operate_log[k].result = operate_log[l].result
    /\ \A k \in DefaultCalls :
          operate_log[k].result = PRE_STRING \o operate_log[k].entity_type \o POST_STRING

\* A PERSON value, its repetition, then a different PERSON value.
C7_Witness ==
    /\ Len(operate_log) = 3
    /\ DefaultCalls = {1, 2, 3}
    /\ \A k \in 1..3 : operate_log[k].entity_type = PERSON
    /\ operate_log[1].text = operate_log[2].text
    /\ operate_log[3].text # operate_log[1].text
    /\ \A k \in 1..3 : operate_log[k].result = <<"{", "{", "P", "E", "R", "S", "O", "N", "}", "}">>

\* C8 as stated: two different original substrings of the same entity type
\* never share a placeholder.
C8_InjectivePerEntityType ==
    \A k \in 1..Len(operate_log), l \in 1..Len(operate_log) :
        (/\ operate_log[k].entity_type = operate_log[l].entity_type
         /\ operate_log[k].text # operate_log[l].text)
        => operate_log[k].result # operate_log[l].result

\* C8 (amended): the placeholder identifies the entity type, not the value:
\* with the default operator configuration two substitutions receive the
\* same placeholder exactly when their entity types are the same, so two
\* different substrings of one entity type share {{TYPE}} and substrings of
\* different entity types never share a placeholder.
C8_InjectiveAcrossEntityTypes ==
    \A k \in DefaultCalls, l \in DefaultCalls :
        (operate_log[k].result = operate_log[l].result)
            <=> (operate_log[k].entity_type = operate_log[l].entity_type)

\* Two different values of one type and a value of another type were replaced.
C8_Witness ==
    \E k \in DefaultCalls, l \in DefaultCalls, m \in DefaultCalls :
        /\ operate_log[k].entity_type = operate_log[l].entity_type
        /\ operate_log[k].text # operate_log[l].text
        /\ operate_log[k].result = operate_log[l].result
        /\ operate_log[m].entity_type # operate_log[k].entity_type
        /\ operate_log[m].result # operate_log[k].result

(***************************************************************************)
(* Properties of the paragraph pipeline and of the round trip.             *)
(***************************************************************************)
RecordSpans == anonymization_results_dict.spans

\* C6: round trip: for any text and any span set that resolves to
\* non-overlapping spans, replacing every placeholder of the masked text by
\* its original value, with the mapping produced during that anonymization,
\* reproduces the text exactly.
C6_RoundTrip ==
    para_pc = "restored" =>
        /\ restored.found
        /\ restored.value = paragraph
        /\ restored.value = anonymization_results_dict.text

\* Two different values of one entity type, next to each other, were
\* replaced by two different placeholders and restored.
C6_Witness ==
    /\ para_pc = "restored"
    /\ Len(RecordSpans) = 2
    /\ RecordSpans[1].entity_type = RecordSpans[2].entity_type
    /\ RecordSpans[1].entity_value # RecordSpans[2].entity_value
    /\ RecordSpans[1].masked_entity_value # RecordSpans[2].masked_entity_value
    /\ RecordSpans[1].end_position = RecordSpans[2].start_position
    /\ anonymization_results_dict.masked # paragraph
    /\ restored.value = paragraph

\* C9: Deanonymize fails with MappingNotFound when the entity type is absent
\* from the mapping or no original value maps to the placeholder; otherwise
\* it returns an original value recorded for that placeholder, never a
\* fallback, and it leaves the mapping unchanged.
C9_DeanonymizeFailsLoudly ==
    para_pc = "looked_up" =>
        LET known == lookup.entity_type \in DOMAIN lookup.mapping
            matches == IF known
                       THEN {k \in 1..Len(lookup.mapping[lookup.entity_type]) :
                               lookup.mapping[lookup.entity_type][k][2]
                                   = lookup.placeholder_value}
                       ELSE {}
        IN /\ (lookup.outcome = MappingNotFound) <=> (matches = {})
           /\ lookup.outcome.found =>
                 \E k \in matches :
                     lookup.outcome.value = lookup.mapping[lookup.entity_type][k][1]
           /\ entity_mapping = lookup.mapping

\* A lookup under a type never seen, next to a type that was seen.
C9_Witness ==
    /\ para_pc = "looked_up"
    /\ DOMAIN lookup.mapping # {}
    /\ lookup.entity_type \notin DOMAIN lookup.mapping
    /\ lookup.outcome = MappingNotFound

\* The placeholder the operators table of the call prescribes for a span.
ExpectedPlaceholder(span) ==
    LET operators == IF UsesOwnOperators(caller_operators)
                     THEN self_operators ELSE caller_operators.table
        config == IF span.entity_type \in DOMAIN operators
                  THEN operators[span.entity_type] ELSE operators[DEFAULT]
    IN IF config.operator_name = "keep" THEN span.entity_value
       ELSE IF config.new_value = None \/ config.new_value = <<>>
            THEN <<"{", "{">> \o span.entity_type \o <<"}", "}">>
            ELSE config.new_value

RECURSIVE ReplacedFrom(_, _, _)
\* The text from offset pos on, with each span from rank k on replaced.
ReplacedFrom(text, k, pos) ==
    IF k > Len(RecordSpans) THEN SubSeq(text, pos + 1, Len(text))
    ELSE SubSeq(text, pos + 1, RecordSpans[k].start_position)
            \o ExpectedPlaceholder(RecordSpans[k])
            \o ReplacedFrom(text, k + 1, RecordSpans[k].end_position)

\* C10: every span is replaced at its original-text offsets: the masked text
\* is the original text with exactly each span [start, end) replaced by its
\* placeholder and all text outside the spans unchanged and in order.
C10_SubstitutionPreservesOffsets ==
    para_pc # "new" =>
        anonymization_results_dict.masked
            = ReplacedFrom(anonymization_results_dict.full_text, 1, 0)

\* Two spans replaced by placeholders longer than they are, after a prefix.
C10_Witness ==
    /\ para_pc = "anonymized"
    /\ Len(RecordSpans) = 2
    /\ RecordSpans[1].start_position > 0
    /\ \A k \in 1..2 : RecordSpans[k].operator = "custom_replace"
    /\ Len(anonymization_results_dict.masked) > Len(anonymization_results_dict.full_text) + 10

(***************************************************************************)
(* anonymize_paragraph with an engine that resolves conflicts: the         *)
(* substitution step may leave analyzer results out, and then returns      *)
(* fewer substitution records than there are analyzer results.             *)
(***************************************************************************)
\* What the engine may answer: the substitution of any part of the results.
EngineAnswers(text, analyzer_results, operators) ==
    {AnonymizerEngine_anonymize(text, Pick(analyzer_results, kept), operators) :
        kept \in {K \in SUBSET (1..Len(analyzer_results)) :
                     \A j \in K, k \in K :
                         j # k => Disjoint(analyzer_results[j], analyzer_results[k])}}

\* Two detectors report the same span under different entity types: the two
\* results, in either order.
TiedResults(text) ==
    {pair \in RecognizerResults(text) \X RecognizerResults(text) :
        /\ SpanOfResult(pair[1]) = SpanOfResult(pair[2])
        /\ pair[1] # pair[2]}

InitCorrespondence ==
    /\ AggIdle
    /\ operate_log = <<>>
    /\ ParaIdle
    /\ UtilIdle

\* anonymize_paragraph(text, analyzer_results=..., operators=...)
AnonymizeParagraphResolving ==
    /\ para_pc = "new"
    /\ \E text \in Texts :
        \E analyzer_results \in AnalyzerResults(text) \cup TiedResults(text),
           given \in CallerOperators :
          LET operators == WithDefaultKeep(EffectiveOperators(given, self_operators))
              deduplicated == remove_duplicates(analyzer_results)
          IN \E results \in EngineAnswers(text, deduplicated, operators) :
             /\ self_operators' =
                    IF UsesOwnOperators(given) THEN operators ELSE self_operators
             /\ caller_operators' =
                    IF UsesOwnOperators(given) THEN given
                    ELSE [given EXCEPT !.table = operators]
             /\ anonymization_results' =
                    [results EXCEPT !.items = SortedByStartEnd(results.items)]
             /\ anonymization_results_dict' = ParagraphRecord(text, deduplicated, results)
             /\ analyzer_results_sorted' = SortedByStartEnd(deduplicated)
             /\ paragraph' = text
             /\ traceback_printed' =
                    ~SameLength(SortedByStartEnd(deduplicated),
                                SortedByStartEnd(results.items))
    /\ para_pc' = "anonymized"
    /\ UNCHANGED <<entity_mapping, restored, lookup>>
    /\ UNCHANGED <<aggVars, codecVars, utilVars>>

NextCorrespondence == AnonymizeParagraphResolving

SpecCorrespondence == InitCorrespondence /\ [][NextCorrespondence]_vars

(***************************************************************************)
(* Several anonymize_paragraph calls on one PiiAnonymizer: of the earlier  *)
(* calls the instance keeps only what they did to self.operators; the      *)
(* last call is followed in full.                                          *)
(***************************************************************************)
InitSession ==
    /\ AggIdle
    /\ operate_log = <<>>
    /\ ParaIdle
    /\ UtilIdle

\* An earlier anonymize_paragraph call, whose record went to its caller:
\* lines 80-82 set operators["DEFAULT"] in self.operators when the call
\* brought no operators of its own.
AnonymizeEarlierParagraph ==
    /\ para_pc = "new"
    /\ \E given \in CallerOperators :
          self_operators' =
              IF UsesOwnOperators(given)
              THEN WithDefaultKeep(EffectiveOperators(given, self_operators))
              ELSE self_operators
    /\ UNCHANGED <<caller_operators, anonymization_results, anonymization_results_dict,
                   entity_mapping, restored, lookup, para_pc,
                   analyzer_results_sorted, traceback_printed, paragraph>>
    /\ UNCHANGED <<aggVars, codecVars, utilVars>>

NextSession == AnonymizeEarlierParagraph \/ AnonymizeParagraph

SpecSession == InitSession /\ [][NextSession]_vars

(***************************************************************************)
(* anonymize as a state machine: one call on a text of several lines.      *)
(***************************************************************************)
DocumentAlphabet == {"a", " ", "\r", "U+2003", NL}

DocumentTexts == UNION {[1..n -> DocumentAlphabet] : n \in 0..DocumentLen}

InitDocument ==
    /\ AggIdle
    /\ operate_log = <<>>
    /\ ParaIdle
    /\ UtilIdle

\* anonymize(text); every paragraph it passes on sets operators["DEFAULT"]
\* in self.operators.
Anonymize ==
    /\ ~document.called
    /\ \E text \in DocumentTexts, analyzer \in Analyzers :
          /\ document' = [text |-> text,
                          results |-> anonymize(text, analyzer, self_operators),
                          called |-> TRUE]
          /\ self_operators' =
                 IF \E k \in DOMAIN SplitOn(text, NL) : IsParagraph(SplitOn(text, NL)[k])
                 THEN WithDefaultKeep(self_operators)
                 ELSE self_operators
    /\ UNCHANGED <<caller_operators, anonymization_results, anonymization_results_dict,
                   entity_mapping, restored, lookup, para_pc,
                   analyzer_results_sorted, traceback_printed, paragraph>>
    /\ UNCHANGED <<aggVars, codecVars, alignment, enrichment>>

NextDocument == Anonymize

SpecDocument == InitDocument /\ [][NextDocument]_vars

(***************************************************************************)
(* enrich_entity_info as a state machine: one call, one step for each      *)
(* iteration of the scanning loop (line 22) and of the continuation search *)
(* (line 48), and a last step that builds the returned entities.           *)
(***************************************************************************)
\* text[i] of Python.
CharAt(text, i) == text[i + 1]

\* d[k] = v on a dict.
DictSet(d, k, v) == [x \in DOMAIN d \cup {k} |-> IF x = k THEN v ELSE d[x]]

\* Line 22: the condition of the scanning loop.
ScanCondition(e) ==
    e.masked_idx < Len(e.masked_text) /\ e.original_idx < Len(e.original_text)

\* Line 24: masked_text[masked_idx:].startswith("{{")
AtPlaceholder(e) ==
    Slice(e.masked_text, e.masked_idx, e.masked_idx + 2) = PRE_STRING

RECURSIVE SkipSpaces(_, _)
\* Lines 35-37: the index of the first character at or after next_char_idx
\* that is not whitespace, or len(masked_text).
SkipSpaces(masked_text, next_char_idx) ==
    IF next_char_idx < Len(masked_text) /\ IsSpace(CharAt(masked_text, next_char_idx))
    THEN SkipSpaces(masked_text, next_char_idx + 1)
    ELSE next_char_idx

\* Lines 56-62: the characters after next_char_idx and after match_idx agree
\* as far as both texts reach.
can_continue(masked_text, original_text, next_char_idx, match_idx) ==
    \A check_idx \in 1..Min(Len(masked_text) - next_char_idx - 1,
                            Len(original_text) - match_idx - 1) :
        CharAt(masked_text, next_char_idx + check_idx)
            = CharAt(original_text, match_idx + check_idx)

\* Line 68: where the continuation search goes on after a rejected match.
next_search_start_same(match_idx) == match_idx
next_search_start(match_idx) == match_idx + 1

\* Lines 99-114: a copy of the entity, all its keys kept, with its offsets in
\* the original text, or the entity as it came when one of its offsets was
\* never mapped.
enriched_entity(entity, original_text, mask_to_orig_start, mask_to_orig_end) ==
    IF entity.start \in DOMAIN mask_to_orig_start /\ entity.end \in DOMAIN mask_to_orig_end
    THEN LET start_position == mask_to_orig_start[entity.start]
             end_position == mask_to_orig_end[entity.end]
         IN DictUpdate(entity,
                       [start_position |-> start_position,
                        end_position |-> end_position,
                        orig_text |-> Slice(original_text, start_position,
                                            end_position)])
    ELSE entity

EnrichAlphabet == {"a", "b", " "}
EnrichTexts == UNION {[1..n -> EnrichAlphabet] : n \in 1..EnrichTextLen}

\* The original texts of the calls whose masked text is made from spans.
EnrichOriginals == EnrichTexts \cup {e.original_text : e \in AlignExamples}

EnrichSpanSetsOf(text) ==
    IF text \in EnrichTexts THEN SpanChains(0, Len(text), EnrichPlaceholders)
    ELSE {e.spans : e \in {x \in AlignExamples : x.original_text = text}}

\* Any pair of texts: the masked text may hold stray or unclosed braces.
ScanOriginalAlphabet == {"a", "b"}
ScanMaskedAlphabet == {"a", " ", "{", "}"}
ScanOriginals == UNION {[1..n -> ScanOriginalAlphabet] : n \in 0..ScanOriginalLen}
ScanMaskedTexts == UNION {[1..n -> ScanMaskedAlphabet] : n \in 0..ScanMaskedLen}

\* The entities given with such a pair: the whole masked text as one entity.
WholeTextEntity(masked_text) ==
    IF masked_text = <<>> THEN <<>>
    ELSE <<[entity_value |-> masked_text, start |-> 0, end |-> Len(masked_text)]>>

InitEnrich ==
    /\ AggIdle
    /\ operate_log = <<>>
    /\ ParaIdle
    /\ UtilIdle

\* Lines 17-20: the locals at the start of a call.
Called(original_text, masked_text, entities, spans) ==
    [NoEnrichment EXCEPT !.original_text = original_text, !.masked_text = masked_text,
                         !.entities = entities, !.spans = spans, !.pc = "scan"]

\* enrich_entity_info(original_text, masked_text, entities) is called on a
\* masked text made from spans of the original.
EnrichEntityInfo ==
    /\ enrichment.pc = "idle"
    /\ \E text \in EnrichOriginals :
        \E spans \in EnrichSpanSetsOf(text) :
          LET input == MaskedInput(text, spans)
          IN enrichment' = Called(input.original_text, input.masked_text,
                                  input.entities, input.spans)
    /\ UNCHANGED <<aggVars, codecVars, paraVars, alignment, document>>

\* enrich_entity_info is called on any two texts.
EnrichAnyTexts ==
    /\ enrichment.pc = "idle"
    /\ \E original_text \in ScanOriginals :
        \E masked_text \in ScanMaskedTexts :
          enrichment' = Called(original_text, masked_text,
                               WholeTextEntity(masked_text), <<>>)
    /\ UNCHANGED <<aggVars, codecVars, paraVars, alignment, document>>

\* Lines 79-91: one iteration on a regular character.
ScanCharacter ==
    /\ enrichment.pc = "scan"
    /\ ScanCondition(enrichment)
    /\ ~AtPlaceholder(enrichment)
    /\ LET e == enrichment
       IN enrichment' =
            IF CharAt(e.masked_text, e.masked_idx) = CharAt(e.original_text, e.original_idx)
            THEN [e EXCEPT
                    !.mask_to_orig_start =
                        DictSet(e.mask_to_orig_start, e.masked_idx, e.original_idx),
                    !.mask_to_orig_end =
                        DictSet(e.mask_to_orig_end, e.masked_idx + 1, e.original_idx + 1),
                    !.masked_idx = e.masked_idx + 1,
                    !.original_idx = e.original_idx + 1]
            ELSE [e EXCEPT !.original_idx = e.original_idx + 1]
    /\ UNCHANGED <<aggVars, codecVars, paraVars, alignment, document>>

\* Lines 24-47: an iteration that meets "{{": up to the break of line 33, the
\* assignment of line 41 or the start of the continuation search.
ScanPlaceholder ==
    /\ enrichment.pc = "scan"
    /\ ScanCondition(enrichment)
    /\ AtPlaceholder(enrichment)
    /\ LET e == enrichment
           starts == DictSet(e.mask_to_orig_start, e.masked_idx, e.original_idx)
           end_mask_idx == Find(e.masked_text, POST_STRING, e.masked_idx) + 2
           next_char_idx == SkipSpaces(e.masked_text, end_mask_idx)
       IN enrichment' =
            IF end_mask_idx = 1
            THEN [e EXCEPT !.mask_to_orig_start = starts, !.end_mask_idx = end_mask_idx,
                           !.assigned = FALSE, !.pc = "break"]
            ELSE IF next_char_idx >= Len(e.masked_text)
            THEN [e EXCEPT !.mask_to_orig_start = starts, !.end_mask_idx = end_mask_idx,
                           !.next_char_idx = next_char_idx,
                           !.entity_end_idx = Len(e.original_text),
                           !.assigned = TRUE, !.pc = "mask_end"]
            ELSE [e EXCEPT !.mask_to_orig_start = starts, !.end_mask_idx = end_mask_idx,
                           !.next_char_idx = next_char_idx,
                           !.search_start = e.original_idx,
                           !.assigned = FALSE, !.pc = "search"]
    /\ UNCHANGED <<aggVars, codecVars, paraVars, alignment, document>>

\* Lines 48-71: one test of the condition of the continuation search, with
\* the iteration it starts or, past the end of the original text, line 71.
SearchContinuation ==
    /\ enrichment.pc = "search"
    /\ LET e == enrichment
           next_char == CharAt(e.masked_text, e.next_char_idx)
           match_idx == Find(e.original_text, <<next_char>>, e.search_start)
       IN enrichment' =
            IF e.search_start >= Len(e.original_text)
            THEN [e EXCEPT !.entity_end_idx = Len(e.original_text),
                           !.assigned = TRUE, !.pc = "mask_end"]
            ELSE IF match_idx = -1
            THEN [e EXCEPT !.entity_end_idx = Len(e.original_text),
                           !.assigned = TRUE, !.pc = "mask_end"]
            ELSE IF can_continue(e.masked_text, e.original_text, e.next_char_idx, match_idx)
            THEN [e EXCEPT !.entity_end_idx = match_idx,
                           !.assigned = TRUE, !.pc = "mask_end"]
            ELSE [e EXCEPT !.search_start = next_search_start(match_idx)]
    /\ UNCHANGED <<aggVars, codecVars, paraVars, alignment, document>>

\* Lines 74-78: the end of the placeholder is mapped and both indices move.
MaskEnd ==
    /\ enrichment.pc = "mask_end"
    /\ LET e == enrichment
       IN enrichment' =
            [e EXCEPT !.mask_to_orig_end =
                          DictSet(e.mask_to_orig_end, e.end_mask_idx, e.entity_end_idx),
                      !.masked_idx = e.end_mask_idx,
                      !.original_idx = e.entity_end_idx,
                      !.pc = "scan"]
    /\ UNCHANGED <<aggVars, codecVars, paraVars, alignment, document>>

\* Lines 93-116: after the loop, every entity is enriched and the list returned.
ReturnEnriched ==
    /\ \/ enrichment.pc = "break"
       \/ enrichment.pc = "scan" /\ ~ScanCondition(enrichment)
    /\ LET e == enrichment
       IN enrichment' =
            [e EXCEPT !.enriched_entities =
                          [k \in 1..Len(e.entities) |->
                              enriched_entity(e.entities[k], e.original_text,
                                              e.mask_to_orig_start, e.mask_to_orig_end)],
                      !.pc = "returned"]
    /\ UNCHANGED <<aggVars, codecVars, paraVars, alignment, document>>

NextEnrich ==
    \/ EnrichEntityInfo
    \/ EnrichAnyTexts
    \/ ScanCharacter
    \/ ScanPlaceholder
    \/ SearchContinuation
    \/ MaskEnd
    \/ ReturnEnriched

SpecEnrich == InitEnrich /\ [][NextEnrich]_vars

\* The steps of a call that was made.
RunEnrich ==
    \/ ScanCharacter
    \/ ScanPlaceholder
    \/ SearchContinuation
    \/ MaskEnd
    \/ ReturnEnriched

\* A call that was made runs on: the interpreter takes its next step.
SpecEnrichRuns == SpecEnrich /\ WF_vars(RunEnrich)

(***************************************************************************)
(* Properties of match_entities.                                           *)
(***************************************************************************)
\* An entity of the results that carries start_position, end_position and
\* orig_text.
IsResolved(entity) == "orig_text" \in DOMAIN entity

Placeholders == 1..Len(alignment.entities)

\* The substring of the original text the k-th placeholder stands for.
OriginalOf(k) ==
    Slice(alignment.original_text, alignment.spans[k].start, alignment.spans[k].end)

AtTextBoundary(k) ==
    \/ alignment.entities[k].start = 0
    \/ alignment.entities[k].end = Len(alignment.masked_text)

SpecExample == CHOOSE e \in AlignExamples : Len(e.original_text) = 24

\* C11 (as stated): on the masked text "{{PERSON}} ... {{LOCATION}}." of the
\* specification both placeholders are resolved, each to the substring it
\* stands for, and every placeholder at the very start or the very end of a
\* masked text is resolved to its original substring.
C11_AlignmentRecovery ==
    alignment.called =>
        /\ alignment.original_text = SpecExample.original_text =>
               \A k \in Placeholders :
                   /\ IsResolved(alignment.results[k])
                   /\ alignment.results[k].orig_text = OriginalOf(k)
        /\ \A k \in Placeholders :
               AtTextBoundary(k) =>
                   /\ IsResolved(alignment.results[k])
                   /\ alignment.results[k].orig_text = OriginalOf(k)

\* The call on the example of the specification: the placeholder at offset
\* 0 comes back without orig_text, the other one with its place name.
C11_Witness ==
    /\ alignment.called
    /\ alignment.original_text = SpecExample.original_text
    /\ ~IsResolved(alignment.results[1])
    /\ IsResolved(alignment.results[2])
    /\ alignment.results[2].orig_text = <<"Α", "θ", "ή", "ν", "α">>

\* The resolved entity before the k-th one, with none resolved in between.
PreviouslyResolved(j, k) ==
    /\ j < k
    /\ IsResolved(alignment.results[j])
    /\ \A i \in Placeholders : j < i /\ i < k => ~IsResolved(alignment.results[i])

\* C12 (as stated): the search for a placeholder starts no earlier than the
\* end resolved for the previous placeholder, so every resolved entity
\* starts at or after the end_position of the previously resolved entity.
C12_SearchCursor ==
    alignment.called =>
        \A j, k \in Placeholders :
            PreviouslyResolved(j, k) /\ IsResolved(alignment.results[k]) =>
                alignment.results[k].start_position >= alignment.results[j].end_position

\* The call on "a X a Y b": the word before both placeholders is "a", and
\* the second entity is resolved from the first "a" again, to "X a Y".
C12_Witness ==
    /\ alignment.called
    /\ alignment.original_text = <<"a", " ", "X", " ", "a", " ", "Y", " ", "b">>
    /\ alignment.results[1].end_position = 4
    /\ alignment.results[2].start_position = 1
    /\ alignment.results[2].orig_text = <<"X", " ", "a", " ", "Y">>

\* The cleaned context windows of the k-th placeholder.
BeforeOf(k) == CleanContext(context_before(alignment.masked_text, alignment.entities[k]))
AfterOf(k) == CleanContext(context_after(alignment.masked_text, alignment.entities[k]))

\* The end of the first occurrence of the before-context in the original.
BeforeEndOf(k) == Find(alignment.original_text, BeforeOf(k), 0) + Len(BeforeOf(k))

\* The first occurrence of the after-context at or after that end, or -1.
AfterPosOf(k) == Find(alignment.original_text, AfterOf(k), BeforeEndOf(k))

\* Both windows are non-empty and occur in the original text, the
\* after-context at or after the end of the before-context.
BothContextsFound(k) ==
    /\ BeforeOf(k) # <<>>
    /\ AfterOf(k) # <<>>
    /\ Find(alignment.original_text, BeforeOf(k), 0) >= 0
    /\ AfterPosOf(k) >= 0

AnchoredAt(k) ==
    /\ IsResolved(alignment.results[k])
    /\ alignment.results[k].start_position = BeforeEndOf(k)
    /\ alignment.results[k].end_position = AfterPosOf(k)
    /\ alignment.results[k].orig_text =
           Slice(alignment.original_text, BeforeEndOf(k), AfterPosOf(k))

\* C13 (as stated): when both cleaned context windows are found in the
\* original text, the entity is resolved to the range from the end of the
\* before-context match to the first after-context match at or after it.
C13_ContextAnchoring ==
    alignment.called =>
        \A k \in Placeholders : BothContextsFound(k) => AnchoredAt(k)

\* C13 (amended): the same, when the first after-context match lies
\* strictly after the end of the before-context match; when it lies exactly
\* at that end the primary strategy resolves nothing, and the entity is
\* left to the fallback, which reports no empty range either.
C13_ContextAnchoringNonEmpty ==
    alignment.called =>
        \A k \in Placeholders :
            BothContextsFound(k) =>
                IF AfterPosOf(k) > BeforeEndOf(k)
                THEN AnchoredAt(k)
                ELSE IsResolved(alignment.results[k]) =>
                         /\ alignment.results[k] =
                                Enriched(alignment.entities[k],
                                         WordMatch(alignment.original_text,
                                                   BeforeOf(k), AfterOf(k)))
                         /\ alignment.results[k].end_position
                                > alignment.results[k].start_position

\* A placeholder between two words of a text in which the words repeat:
\* both windows are found, and the entity is the range between them.
C13_Witness ==
    /\ alignment.called
    /\ Len(alignment.original_text) = 11
    /\ BothContextsFound(1)
    /\ AfterPosOf(1) > BeforeEndOf(1)
    /\ alignment.results[1].orig_text = <<"Y">>

\* The k-th entity was resolved by the fallback: the primary strategy found
\* nothing, and the entity carries a span all the same.
ResolvedByFallback(k) ==
    /\ ~DirectMatch(alignment.original_text, BeforeOf(k), AfterOf(k)).found
    /\ IsResolved(alignment.results[k])

\* original_text[start_position:end_position] of the k-th entity
ReportedRange(k) ==
    Slice(alignment.original_text, alignment.results[k].start_position,
          alignment.results[k].end_position)

\* C14 (as stated): an entity resolved by the fallback reports the range
\* between the two tokens trimmed of surrounding whitespace, so the original
\* text between start_position and end_position is the reported orig_text.
C14_FallbackSpanTrimmed ==
    alignment.called =>
        \A k \in Placeholders :
            ResolvedByFallback(k) =>
                /\ ReportedRange(k) = alignment.results[k].orig_text
                /\ Strip(ReportedRange(k)) = ReportedRange(k)

\* The second placeholder of the example of the specification: the window
\* before it holds what is left of the first placeholder, so the fallback
\* resolves it, to the text "Αθήνα" and the range 17..23 that starts with
\* the space before it.
C14_Witness ==
    /\ alignment.called
    /\ alignment.original_text = SpecExample.original_text
    /\ ResolvedByFallback(2)
    /\ alignment.results[2].start_position = 17
    /\ alignment.results[2].end_position = 23
    /\ ReportedRange(2) = <<" ", "Α", "θ", "ή", "ν", "α">>
    /\ alignment.results[2].orig_text = <<"Α", "θ", "ή", "ν", "α">>

\* Neither strategy resolves the k-th placeholder.
NeitherStrategyResolves(k) ==
    /\ ~DirectMatch(alignment.original_text, BeforeOf(k), AfterOf(k)).found
    /\ ~WordMatch(alignment.original_text, BeforeOf(k), AfterOf(k)).found

\* C15: the results hold one entry per input entity, in the order of the
\* input; every entry keeps the keys of its entity, and an entity neither
\* strategy resolves comes back unchanged, without start_position,
\* end_position or orig_text.
C15_SoftAlignmentFailure ==
    alignment.called =>
        /\ Len(alignment.results) = Len(alignment.entities)
        /\ \A k \in Placeholders :
               /\ alignment.results[k].entity_value = alignment.entities[k].entity_value
               /\ alignment.results[k].start = alignment.entities[k].start
               /\ alignment.results[k].end = alignment.entities[k].end
               /\ NeitherStrategyResolves(k) =>
                      /\ alignment.results[k] = alignment.entities[k]
                      /\ DOMAIN alignment.results[k] = {"entity_value", "start", "end"}

\* A call with two placeholders of which the first is not resolved and the
\* second is: the unresolved one keeps its place in the results.
C15_Witness ==
    /\ alignment.called
    /\ Len(alignment.entities) = 2
    /\ NeitherStrategyResolves(1)
    /\ ~IsResolved(alignment.results[1])
    /\ IsResolved(alignment.results[2])

\* A raw window with every "{{" and every "}}" taken out, both characters.
RECURSIVE WithoutDelimiters(_)
WithoutDelimiters(raw) ==
    IF raw = <<>> THEN <<>>
    ELSE IF Slice(raw, 0, 2) \in {PRE_STRING, POST_STRING}
         THEN WithoutDelimiters(Slice(raw, 2, Len(raw)))
         ELSE <<Head(raw)>> \o WithoutDelimiters(Tail(raw))

RawBeforeOf(k) == context_before(alignment.masked_text, alignment.entities[k])
RawAfterOf(k) == context_after(alignment.masked_text, alignment.entities[k])

\* C20 (as stated): the raw windows are the at most 20 characters before
\* mask_start and after mask_end, fewer only at the ends of the text, and
\* the cleaned windows are the raw ones without any "{{" and "}}".
C20_ContextCleaning ==
    alignment.called =>
        \A k \in Placeholders :
            /\ RawBeforeOf(k) =
                   Slice(alignment.masked_text,
                         alignment.entities[k].start
                             - Min(ContextLen, alignment.entities[k].start),
                         alignment.entities[k].start)
            /\ RawAfterOf(k) =
                   Slice(alignment.masked_text, alignment.entities[k].end,
                         alignment.entities[k].end + ContextLen)
            /\ BeforeOf(k) = WithoutDelimiters(RawBeforeOf(k))
            /\ AfterOf(k) = WithoutDelimiters(RawAfterOf(k))

\* The first placeholder of the example of the specification: the 20
\* characters after it end inside the second placeholder, and of its "{{"
\* one brace stays in the cleaned window.
C20_Witness ==
    /\ alignment.called
    /\ alignment.original_text = SpecExample.original_text
    /\ Len(RawAfterOf(1)) = ContextLen
    /\ Slice(RawAfterOf(1), 11, 13) = PRE_STRING
    /\ Len(AfterOf(1)) = ContextLen - 1
    /\ AfterOf(1)[12] = "{"
    /\ AfterOf(1)[13] = "L"

(***************************************************************************)
(* Properties of anonymize.                                                *)
(***************************************************************************)
\* The offsets of the line breaks of the text, 1-based.
LineBreaks == {i \in 1..Len(document.text) : document.text[i] = NL}

\* The offsets at which a line begins: the start of the text and the offset
\* after every line break.
LineStarts == {1} \cup {i + 1 : i \in LineBreaks}

\* The line that begins at offset b: up to the next line break or the end.
LineAt(b) ==
    LET breaks == {i \in LineBreaks : i >= b}
        last == IF breaks = {} THEN Len(document.text)
                ELSE (CHOOSE i \in breaks : \A j \in breaks : i <= j) - 1
    IN SubSeq(document.text, b, last)

NotBlank(line) == \E i \in 1..Len(line) : line[i] \notin Whitespace

\* The offsets of the lines that are not blank.
ParagraphStarts == {b \in LineStarts : NotBlank(LineAt(b))}

\* C16: anonymize returns one record per line that is not empty or
\* whitespace-only, in the order of the lines, with full_text equal to the
\* line; a blank line gives no record.
C16_ParagraphFiltering ==
    document.called =>
        /\ Len(document.results) = Cardinality(ParagraphStarts)
        /\ \A b \in ParagraphStarts :
               LET rank == Cardinality({c \in ParagraphStarts : c <= b})
               IN document.results[rank].full_text = LineAt(b)

\* A text with a blank line between two paragraphs: two records.
C16_Witness ==
    /\ document.called
    /\ document.text = <<"a", NL, " ", NL, "a">>
    /\ Len(document.results) = 2
    /\ document.results[1].full_text = <<"a">>
    /\ document.results[2].full_text = <<"a">>

(***************************************************************************)
(* Properties of the pairing of analyzer results and substitution records. *)
(***************************************************************************)
CountsDiffer == Len(analyzer_results_sorted) # Len(anonymization_results.items)

\* The k-th span of the record is the k-th analyzer result with the operator
\* of the k-th substitution record.
PairedByRank(k) ==
    LET span == anonymization_results_dict.spans[k]
    IN /\ span.entity_type = analyzer_results_sorted[k].entity_type
       /\ span.start_position = analyzer_results_sorted[k].start
       /\ span.end_position = analyzer_results_sorted[k].end
       /\ span.entity_value = Slice(paragraph, analyzer_results_sorted[k].start,
                                    analyzer_results_sorted[k].end)
       /\ span.operator = anonymization_results.items[k].operator

\* C17: the record always carries full_text and masked; its spans are
\* either none or one per analyzer result, paired by rank; when the number
\* of analyzer results differs from the number of substitution records the
\* traceback of the failed assertion is printed and the spans are none.
C17_SpanCorrespondence ==
    para_pc = "anonymized" =>
        /\ anonymization_results_dict.full_text = paragraph
        /\ anonymization_results_dict.masked = anonymization_results.text
        /\ Len(anonymization_results_dict.spans) \in {0, Len(analyzer_results_sorted)}
        /\ \A k \in DOMAIN anonymization_results_dict.spans : PairedByRank(k)
        /\ traceback_printed = CountsDiffer
        /\ CountsDiffer => anonymization_results_dict.spans = <<>>

\* Two analyzer results and one substitution record: the record has the
\* masked text and no spans.
C17_Witness ==
    /\ para_pc = "anonymized"
    /\ Len(analyzer_results_sorted) = 2
    /\ Len(anonymization_results.items) = 1
    /\ traceback_printed
    /\ anonymization_results_dict.spans = <<>>
    /\ anonymization_results_dict.masked # anonymization_results_dict.full_text

(***************************************************************************)
(* Properties of the spans of a paragraph record.                          *)
(***************************************************************************)
RecordedSpans == anonymization_results_dict.spans

\* (start_position, end_position) of the j-th span is not after that of the
\* k-th one.
InAscendingOrder(j, k) ==
    \/ RecordedSpans[j].start_position < RecordedSpans[k].start_position
    \/ /\ RecordedSpans[j].start_position = RecordedSpans[k].start_position
       /\ RecordedSpans[j].end_position <= RecordedSpans[k].end_position

\* The value of the k-th span is the slice of full_text at its offsets.
ValueIsSlice(k) ==
    RecordedSpans[k].entity_value =
        Slice(anonymization_results_dict.full_text,
              RecordedSpans[k].start_position, RecordedSpans[k].end_position)

\* C23: in every record returned by anonymize_paragraph the spans are in
\* ascending order of (start_position, end_position), the entity_value of
\* each span is full_text[start_position:end_position], its entity_type and
\* offsets are those of the analyzer result and its operator that of the
\* substitution record at the same rank, both lists sorted by (start, end).
C23_SpanOrderAndValues ==
    para_pc = "anonymized" =>
        /\ \A j \in DOMAIN RecordedSpans, k \in DOMAIN RecordedSpans :
               j < k => InAscendingOrder(j, k)
        /\ \A k \in DOMAIN RecordedSpans :
               /\ ValueIsSlice(k)
               /\ RecordedSpans[k].entity_type = analyzer_results_sorted[k].entity_type
               /\ RecordedSpans[k].start_position = analyzer_results_sorted[k].start
               /\ RecordedSpans[k].end_position = analyzer_results_sorted[k].end
               /\ RecordedSpans[k].operator = anonymization_results.items[k].operator

\* A record with two spans that were substituted by different operators:
\* the earlier span comes first and each has its own operator and value.
C23_Witness ==
    /\ para_pc = "anonymized"
    /\ Len(RecordedSpans) = 2
    /\ RecordedSpans[1].start_position < RecordedSpans[2].start_position
    /\ RecordedSpans[1].operator # RecordedSpans[2].operator
    /\ RecordedSpans[1].entity_value # RecordedSpans[2].entity_value

(***************************************************************************)
(* Properties of the format of the placeholders.                           *)
(***************************************************************************)
\* What the k-th call has to return: the configured new_value when it is a
\* non-empty string, and {{entity_type}} otherwise.
ConfiguredOrPlaceholder(k) ==
    IF operate_log[k].new_value # None /\ operate_log[k].new_value # <<>>
    THEN operate_log[k].new_value
    ELSE <<"{", "{">> \o operate_log[k].entity_type \o <<"}", "}">>

\* C18 (as stated): operate returns the configured new_value when it is a
\* non-empty string and "{{" + entity_type + "}}" otherwise, and never the
\* original text.
C18_PlaceholderFormat ==
    \A k \in 1..Len(operate_log) :
        /\ operate_log[k].result = ConfiguredOrPlaceholder(k)
        /\ operate_log[k].result # operate_log[k].text

\* C18 (amended): the same format, and the result does not depend on the
\* original text: two calls with the same parameters return the same text,
\* whatever their original texts are.
C18_PlaceholderFormatIgnoresText ==
    /\ \A k \in 1..Len(operate_log) :
           operate_log[k].result = ConfiguredOrPlaceholder(k)
    /\ \A j, k \in 1..Len(operate_log) :
           /\ operate_log[j].new_value = operate_log[k].new_value
           /\ operate_log[j].entity_type = operate_log[k].entity_type
           => operate_log[j].result = operate_log[k].result

\* Three calls: one without new_value, one whose new_value differs from the
\* text, and one whose text is the configured new_value itself.
C18_Witness ==
    /\ Len(operate_log) = 3
    /\ operate_log[1].new_value = None
    /\ operate_log[1].result = <<"{", "{", "L", "O", "C", "A", "T", "I", "O", "N", "}", "}">>
    /\ operate_log[2].new_value = <<"X">>
    /\ operate_log[2].text = <<"a">>
    /\ operate_log[2].result = <<"X">>
    /\ operate_log[3].new_value = <<"X">>
    /\ operate_log[3].text = <<"X">>
    /\ operate_log[3].result = <<"X">>

(***************************************************************************)
(* Properties of a session of anonymize_paragraph calls.                   *)
(***************************************************************************)
\* The operators argument as the caller wrote it: a table that came back
\* with a DEFAULT entry was given without it.
OperatorsAsGiven ==
    [caller_operators EXCEPT
        !.table = [key \in DOMAIN caller_operators.table \ {DEFAULT} |->
                      caller_operators.table[key]]]

\* The record a fresh PiiAnonymizer returns for the text, the spans and the
\* operators of the last call.
RecordOfFreshInstance ==
    LET operators == WithDefaultKeep(EffectiveOperators(OperatorsAsGiven, InitialOperators))
        spans == analyzer_results_sorted
    IN ParagraphRecord(paragraph, spans,
                       AnonymizerEngine_anonymize(paragraph, spans, operators))

\* After any calls, the last record is the one of a fresh instance.
SameRecordAsFreshInstance ==
    para_pc = "anonymized" => anonymization_results_dict = RecordOfFreshInstance

\* C19 (as stated): after any sequence of calls the record is the one a
\* fresh instance returns, the operators table a call was given is as the
\* caller wrote it, and the default operators table of the instance is as
\* the constructor built it.
C19_SessionIndependence ==
    /\ SameRecordAsFreshInstance
    /\ caller_operators = OperatorsAsGiven
    /\ self_operators = InitialOperators

\* A call with an operators table of its own, after a call without one: the
\* table of the caller and the table of the instance both hold a DEFAULT
\* entry that nobody configured.
C19_Witness ==
    /\ para_pc = "anonymized"
    /\ caller_operators.given
    /\ DOMAIN caller_operators.table = {PERSON, DEFAULT}
    /\ DEFAULT \in DOMAIN self_operators
    /\ DEFAULT \notin DOMAIN InitialOperators
    /\ anonymization_results_dict = RecordOfFreshInstance
    /\ anonymization_results_dict.spans # <<>>

(***************************************************************************)
(* Properties of enrich_entity_info.                                       *)
(***************************************************************************)
\* The call was made on a masked text that is the original with one or more
\* spans replaced, and it has returned.
ReturnedForSpans ==
    /\ enrichment.pc = "returned"
    /\ enrichment.spans # <<>>

\* The k-th returned entity carries the offsets and the text of the span its
\* placeholder replaced.
RecoversSpan(k) ==
    LET entity == enrichment.enriched_entities[k]
        span == enrichment.spans[k]
    IN /\ IsResolved(entity)
       /\ entity.start_position = span.start
       /\ entity.end_position = span.end
       /\ entity.orig_text = Slice(enrichment.original_text, span.start, span.end)

\* C21: when the masked text is the original text with one or more
\* non-overlapping spans replaced by {{...}} placeholders and every entity
\* is the range of a placeholder, every returned entity has start_position
\* and end_position equal to the offsets of the replaced span and orig_text
\* equal to the replaced substring, also when another placeholder follows.
C21_OffsetRecovery ==
    ReturnedForSpans =>
        \A k \in 1..Len(enrichment.entities) : RecoversSpan(k)

\* The call on the example of the specification has returned: the first
\* placeholder is mapped to the whole original text, the second one, which
\* follows it, comes back without offsets.
C21_Witness ==
    /\ ReturnedForSpans
    /\ enrichment.original_text = SpecExample.original_text
    /\ Len(enrichment.enriched_entities) = 2
    /\ IsResolved(enrichment.enriched_entities[1])
    /\ enrichment.enriched_entities[1].start_position = 0
    /\ enrichment.enriched_entities[1].end_position = 24
    /\ ~IsResolved(enrichment.enriched_entities[2])

\* A step that ends an iteration of the scanning loop: lines 84-91 on a
\* regular character, lines 77-78 after a placeholder.
EndsScanIteration ==
    /\ enrichment.pc \in {"scan", "mask_end"}
    /\ enrichment'.pc = "scan"

\* A step of the continuation search that goes on searching.
SearchGoesOn ==
    /\ enrichment.pc = "search"
    /\ enrichment'.pc = "search"

\* The steps of a call keep its termination measure: no index decreases,
\* every iteration of the scanning loop moves one of them forward, the
\* continuation search moves search_start forward, and line 74 reads an
\* entity_end_idx that the same iteration assigned.
ScanProgress ==
    /\ enrichment'.masked_idx >= enrichment.masked_idx
    /\ enrichment'.original_idx >= enrichment.original_idx
    /\ EndsScanIteration =>
           \/ enrichment'.masked_idx > enrichment.masked_idx
           \/ enrichment'.original_idx > enrichment.original_idx
    /\ SearchGoesOn => enrichment'.search_start > enrichment.search_start
    /\ enrichment'.pc = "mask_end" => enrichment'.assigned

\* C22: enrich_entity_info terminates for every pair of original and masked
\* texts, an unclosed "{{" and texts without a common character included:
\* every iteration of the scanning loop strictly increases masked_idx or
\* original_idx, neither index ever decreases, the continuation search
\* strictly advances search_start, entity_end_idx is assigned before it is
\* read, and the call returns.
C22_Termination ==
    /\ [][ScanProgress]_vars
    /\ (enrichment.pc # "idle") ~> (enrichment.pc = "returned")

\* A call has returned after a continuation search that moved search_start
\* past a rejected match and then assigned entity_end_idx.
C22_Witness ==
    /\ enrichment.pc = "returned"
    /\ enrichment.assigned
    /\ enrichment.search_start > 0
    /\ enrichment.masked_idx = enrichment.end_mask_idx
    /\ enrichment.original_idx = enrichment.entity_end_idx

=============================================================================
